---- MODULE Spec2Model ----
(***************************************************************************)
(* Verification model of the cmux networking and git-diff cores.           *)
(*                                                                         *)
(* The module holds several independent state machines, one per subsystem, *)
(* each with its own specification:                                        *)
(*   SpecCache        repository cache, ensure_repo called one at a time   *)
(*   SpecCacheConc    repository cache, two ensure_repo calls interleaved  *)
(*   SpecGlobalProxy  global proxy: host routing and loop detection        *)
(*   SpecCmuxProxy    cmux-proxy: header-routed forwarding                 *)
(*   SpecSwr          stale-while-revalidate fetch                         *)
(*   SpecTunnel       upgrade and CONNECT tunnels (SpecTunnelFair: with    *)
(*                    the tunnel task scheduled fairly)                    *)
(*   SpecShutdown     start-up and graceful shutdown (SpecShutdownFair:    *)
(*                    with the tasks scheduled fairly)                     *)
(* A specification leaves the variables of the other subsystems at their   *)
(* initial values.                                                         *)
(***************************************************************************)
EXTENDS Integers, Sequences, FiniteSets, TLC

\* ---------------------------------------------------------------- bounds
\* Capacity of the repository cache.  The source sets 20
\* (time/src/repo/cache.rs:7); the model checks the same code with a small
\* capacity so that overflow happens within a few calls.
MAX_CACHE_REPOS == 3
\* Largest value of the wall clock (ms) the model lets time reach.
MaxClock == 2

\* ---------------------------------------------------------------- helpers
Range(s) == { s[i] : i \in 1..Len(s) }

\* Option<T>
None == [some |-> FALSE]
Some(v) == [some |-> TRUE, v |-> v]

\* ======================================================================
\* Repository cache  (apps/server/native/time/src/repo/cache.rs)
\* ======================================================================

\* Repository URLs, already split on '/': <<host, owner, repo>>.
\* Two of them name the same owner/repo on different hosts, one carries
\* the ".git" suffix.
Urls ==
  { <<"github.com", "o", "r1">>,
    <<"github.com", "o", "r1.git">>,
    <<"github.com", "o", "r2">>,
    <<"github.com", "o", "r3">>,
    <<"github.com", "o", "r4">>,
    <<"github.com", "o", "r5">>,
    <<"gitlab.com", "o", "r1">> }

\* str::trim_end_matches(".git") on the last path segment.
trim_end_matches_git(seg) ==
  IF seg = "r1.git" THEN "r1" ELSE seg

\* slug_from_url: the last two '/'-separated parts of the trimmed URL,
\* joined as "<owner>__<repo>".
slug_from_url(url) ==
  LET n == Len(url)
  IN url[n - 1] \o "__" \o trim_end_matches_git(url[n])

Slugs == { slug_from_url(u) : u \in Urls }

\* The order in which the model lets repositories be requested for the first
\* time (repositories are interchangeable, so one order stands for all).
FirstUse == <<"o__r1", "o__r2", "o__r3", "o__r4", "o__r5">>

VARIABLES
  indexFile,    \* cache-index.json: [state |-> "missing" | "partial" | "valid",
                \*                    entries |-> Seq(entry)]
  dirs,         \* slug -> "absent" | "partial" | "repo": the directory <root>/<slug>
  clock,        \* SystemTime::now() in ms
  ensured,      \* history: slugs for which an ensure_repo call has returned Ok
  failedCalls,    \* history: number of ensure_repo calls that have returned Err
  lastCall,     \* history: the last returned ensure_repo call, [slug, ok]
  accessOrder   \* history: the slugs of the index in the order their last
                \* access was stamped, the most recent first

cacheVars == <<indexFile, dirs, clock, ensured, failedCalls, lastCall, accessOrder>>

Entry(slug, now) == [slug |-> slug, path |-> slug, last_access_ms |-> now]

\* load_index: a missing or unparsable file is the empty index.
load_index(file) == IF file.state = "valid" THEN file.entries ELSE <<>>

\* Vec::sort_by(|a, b| b.last_access_ms.cmp(&a.last_access_ms)): a stable
\* sort, most recent first.
\* (insertion from the left keeps equally recent elements in their order)
RECURSIVE sort_from(_, _, _)
sort_from(es, i, acc) ==
  IF i > Len(es) THEN acc
  ELSE LET k == Cardinality({ j \in 1..Len(acc) :
                    acc[j].last_access_ms >= es[i].last_access_ms })
       IN sort_from(es, i + 1,
                    SubSeq(acc, 1, k) \o <<es[i]>> \o SubSeq(acc, k + 1, Len(acc)))

sort_by_last_access_desc(es) == sort_from(es, 1, <<>>)

\* Vec::dedup_by(|a, b| a.slug == b.slug): drops an element equal in slug to
\* the element kept just before it.
RECURSIVE dedup_from(_, _, _)
dedup_from(es, i, acc) ==
  IF i > Len(es) THEN acc
  ELSE IF acc # <<>> /\ acc[Len(acc)].slug = es[i].slug
       THEN dedup_from(es, i + 1, acc)
       ELSE dedup_from(es, i + 1, Append(acc, es[i]))

dedup_by_slug(es) == dedup_from(es, 1, <<>>)

\* update_cache_index, up to the value handed to save_index.
update_cache_index(entries, slug, now) ==
  LET found == { i \in 1..Len(entries) : entries[i].slug = slug }
      upd   == IF found # {}
               THEN LET i == CHOOSE j \in found : \A k \in found : j <= k
                    IN [entries EXCEPT ![i] = Entry(slug, now)]
               ELSE Append(entries, Entry(slug, now))
  IN dedup_by_slug(sort_by_last_access_desc(upd))

\* (mutation of survivors: the slice bound off by one)
survivors_off_by_one(sorted) == SubSeq(sorted, 1, MAX_CACHE_REPOS + 1)

\* enforce_cache_limit lines 128-129: the slices of the sorted entries that
\* are kept and evicted.
survivors(sorted) == SubSeq(sorted, 1, MAX_CACHE_REPOS)

victims(sorted) == SubSeq(sorted, MAX_CACHE_REPOS + 1, Len(sorted))

split_at_limit(sorted) == [survivors |-> survivors(sorted), victims |-> victims(sorted)]

\* enforce_cache_limit lines 125-129, 135: the entries kept and the entries
\* evicted.
enforce_cache_limit(entries) ==
  IF Len(entries) <= MAX_CACHE_REPOS
  THEN [survivors |-> entries, victims |-> <<>>]
  ELSE split_at_limit(sort_by_last_access_desc(entries))

\* fs::remove_dir_all on the path of every victim.
remove_victim_dirs(d, vs) ==
  [s \in DOMAIN d |-> IF \E i \in 1..Len(vs) : vs[i].path = s THEN "absent" ELSE d[s]]

NoCall == [slug |-> "", ok |-> FALSE]

\* The access order after `slug` has been accessed.
Accessed(order, slug) == <<slug>> \o SelectSeq(order, LAMBDA x : x # slug)

\* ensure_repo(url), run to completion with no other call in between.
\* dt: how far the wall clock has advanced when update_cache_index reads it
\* (0: the clock has not advanced since the previous call);
\* cloneOk: whether `git clone` succeeds.
ensure_repo(url, dt, cloneOk) ==
  LET slug  == slug_from_url(url)
      now   == clock + dt
      \* a directory without .git/HEAD is removed; an absent one is created
      \* and cloned into, an existing repository is fetched
      fresh == dirs[slug] # "repo"
  IN /\ now <= MaxClock
     /\ clock' = now
     /\ IF fresh /\ ~cloneOk
        THEN \* run_git(clone)? returns the error; the created directory stays
             /\ failedCalls = 0   \* the model lets one clone fail
             /\ failedCalls' = failedCalls + 1
             /\ dirs' = [dirs EXCEPT ![slug] = "partial"]
             /\ lastCall' = [NoCall EXCEPT !.slug = slug]
             /\ UNCHANGED <<indexFile, ensured, accessOrder>>
        ELSE \E upd \in {update_cache_index(load_index(indexFile), slug, now)} :
             \E lim \in {enforce_cache_limit(upd)} :
               /\ dirs' = remove_victim_dirs([dirs EXCEPT ![slug] = "repo"], lim.victims)
               /\ indexFile' = [state |-> "valid", entries |-> lim.survivors]
               /\ ensured' = ensured \cup {slug}
               /\ lastCall' = [slug |-> slug, ok |-> TRUE]
               /\ accessOrder' = SelectSeq(Accessed(accessOrder, slug),
                                   LAMBDA x : \E i \in 1..Len(lim.survivors) :
                                                lim.survivors[i].slug = x)
               /\ UNCHANGED failedCalls

Touched(slug) == slug \in ensured \/ dirs[slug] # "absent"

InFirstUseOrder(slug) ==
  \A i \in 1..Len(FirstUse) :
    (FirstUse[i] = slug /\ ~Touched(slug)) => \A j \in 1..(i - 1) : Touched(FirstUse[j])

EnsureRepo ==
  \E url \in Urls, dt \in 0..1 :
    /\ InFirstUseOrder(slug_from_url(url))
    /\ \E cloneOk \in (IF dirs[slug_from_url(url)] # "repo" THEN BOOLEAN ELSE {TRUE}) :
      ensure_repo(url, dt, cloneOk)

\* ---------------------------------------------------------------------
\* The same code, one file-system operation at a time, for two ensure_repo
\* calls running on blocking-pool threads (git_diff_refs runs diff_refs, and
\* so ensure_repo, under tokio::task::spawn_blocking).  cache.rs takes no
\* lock, and save_index is a plain fs::write: the file is truncated, then
\* written.
\* ---------------------------------------------------------------------
Threads == {1, 2}
\* Number of ensure_repo calls each thread makes.
MaxCallsPerThread == 2

VARIABLES
  pc,           \* thread -> the statement of ensure_repo it is at
  t_slug,       \* thread -> slug of the repository of its call
  t_idx,        \* thread -> its local CacheIndex (`idx`)
  calls,        \* thread -> number of calls it has started
  sawPartial    \* history: load_index has read the file between truncation and write

concVars == <<pc, t_slug, t_idx, calls, sawPartial>>

InFlight(slug) == \E t \in Threads : pc[t] # "idle" /\ t_slug[t] = slug

InFirstUseOrderConc(slug) ==
  \A i \in 1..Len(FirstUse) :
    (FirstUse[i] = slug /\ ~Touched(slug) /\ ~InFlight(slug))
      => \A j \in 1..(i - 1) : Touched(FirstUse[j]) \/ InFlight(FirstUse[j])

\* ensure_repo entry (lines 33-39)
CBegin(t) ==
  /\ pc[t] = "idle"
  /\ calls[t] < MaxCallsPerThread
  /\ \E url \in Urls :
       /\ InFirstUseOrderConc(slug_from_url(url))
       /\ t_slug' = [t_slug EXCEPT ![t] = slug_from_url(url)]
  /\ calls' = [calls EXCEPT ![t] = @ + 1]
  /\ pc' = [pc EXCEPT ![t] = "dir"]
  /\ UNCHANGED <<cacheVars, t_idx, sawPartial>>

\* lines 40-53: an invalid directory is removed, an absent one created for
\* the clone; a valid one is fetched
CCheckDir(t) ==
  /\ pc[t] = "dir"
  /\ IF dirs[t_slug[t]] # "repo"
     THEN /\ dirs' = [dirs EXCEPT ![t_slug[t]] = "partial"]
          /\ pc' = [pc EXCEPT ![t] = "clone"]
     ELSE /\ pc' = [pc EXCEPT ![t] = "update"]
          /\ UNCHANGED dirs
  /\ UNCHANGED <<indexFile, clock, ensured, failedCalls, lastCall, accessOrder,
                 t_slug, t_idx, calls, sawPartial>>

\* lines 46-49: git clone, which may fail
CClone(t) ==
  /\ pc[t] = "clone"
  /\ \E cloneOk \in BOOLEAN :
       IF cloneOk
       THEN /\ dirs' = [dirs EXCEPT ![t_slug[t]] = "repo"]
            /\ pc' = [pc EXCEPT ![t] = "update"]
            /\ UNCHANGED <<failedCalls, lastCall>>
       ELSE /\ failedCalls = 0   \* the model lets one clone fail
            /\ failedCalls' = failedCalls + 1
            /\ lastCall' = [NoCall EXCEPT !.slug = t_slug[t]]
            /\ pc' = [pc EXCEPT ![t] = "idle"]
            /\ UNCHANGED dirs
  /\ UNCHANGED <<indexFile, clock, ensured, accessOrder, t_slug, t_idx, calls, sawPartial>>

\* update_cache_index lines 90-113: load, stamp, sort, dedup
CUpdateLoad(t) ==
  /\ pc[t] = "update"
  /\ \E dt \in 0..1 :
       /\ clock + dt <= MaxClock
       /\ clock' = clock + dt
       /\ t_idx' = [t_idx EXCEPT ![t] =
                      update_cache_index(load_index(indexFile), t_slug[t], clock + dt)]
  /\ sawPartial' = (sawPartial \/ indexFile.state = "partial")
  /\ pc' = [pc EXCEPT ![t] = "save1_open"]
  /\ UNCHANGED <<indexFile, dirs, ensured, failedCalls, lastCall, accessOrder,
                 t_slug, calls>>

\* save_index line 85, first half: fs::write opens the file truncating it
CTruncate(t) ==
  /\ pc[t] \in {"save1_open", "save2_open"}
  /\ indexFile' = [state |-> "partial", entries |-> <<>>]
  /\ pc' = [pc EXCEPT ![t] = IF pc[t] = "save1_open" THEN "save1_write" ELSE "save2_write"]
  /\ UNCHANGED <<dirs, clock, ensured, failedCalls, lastCall, accessOrder,
                 t_slug, t_idx, calls, sawPartial>>

\* save_index line 85, second half: the serialized index is written
CWrite(t) ==
  /\ pc[t] \in {"save1_write", "save2_write"}
  /\ indexFile' = [state |-> "valid", entries |-> t_idx[t]]
  /\ pc' = [pc EXCEPT ![t] = IF pc[t] = "save1_write" THEN "enforce" ELSE "ret"]
  /\ UNCHANGED <<dirs, clock, ensured, failedCalls, lastCall, accessOrder,
                 t_slug, t_idx, calls, sawPartial>>

\* enforce_cache_limit lines 125-129
CEnforceLoad(t) ==
  /\ pc[t] = "enforce"
  /\ sawPartial' = (sawPartial \/ indexFile.state = "partial")
  /\ t_idx' = [t_idx EXCEPT ![t] = load_index(indexFile)]
  /\ pc' = [pc EXCEPT ![t] =
              IF Len(load_index(indexFile)) <= MAX_CACHE_REPOS THEN "ret" ELSE "evict"]
  /\ UNCHANGED <<cacheVars, t_slug, calls>>

\* enforce_cache_limit lines 130-135
CEvict(t) ==
  /\ pc[t] = "evict"
  /\ \E lim \in {enforce_cache_limit(t_idx[t])} :
       /\ dirs' = remove_victim_dirs(dirs, lim.victims)
       /\ t_idx' = [t_idx EXCEPT ![t] = lim.survivors]
  /\ pc' = [pc EXCEPT ![t] = "save2_open"]
  /\ UNCHANGED <<indexFile, clock, ensured, failedCalls, lastCall, accessOrder,
                 t_slug, calls, sawPartial>>

\* line 63: Ok(path)
CReturn(t) ==
  /\ pc[t] = "ret"
  /\ ensured' = ensured \cup {t_slug[t]}
  /\ lastCall' = [slug |-> t_slug[t], ok |-> TRUE]
  /\ pc' = [pc EXCEPT ![t] = "idle"]
  /\ UNCHANGED <<indexFile, dirs, clock, failedCalls, accessOrder,
                 t_slug, t_idx, calls, sawPartial>>

\* ======================================================================
\* Global proxy: host routing, loop detection, preflight
\* (apps/global-proxy; its source is not part of the tree, only its tests
\* are: modelled from sections 4.A, 4.C, 4.E and 6 of the specification)
\* ======================================================================

\* Largest number of '-'-separated segments of a leftmost host label.
MaxSegs == 4
\* Largest u16.
U16_MAX == 65535

\* A segment of the leftmost label: a run of digits or a word holding a letter.
Num(ds) == [kind |-> "num", digits |-> ds, text |-> ""]
Word(w) == [kind |-> "word", digits |-> <<>>, text |-> w]

Segs ==
  { Word("port"), Word("cmux"), Word("test"),
    Num(<<8, 0, 8, 0>>), Num(<<0>>), Num(<<3, 9, 3, 7, 8>>), Num(<<7, 0, 0, 0, 0>>) }

Labels(max) == UNION { [1..n -> Segs] : n \in 1..max }

\* Hosts: the apex itself (no label) or <label>.<domain>[:p].
Hosts(max) ==
  { [apex |-> TRUE, label |-> <<>>] } \cup { [apex |-> FALSE, label |-> l] : l \in Labels(max) }

Paths == { "/", "/proxy-sw.js", "/app" }
Methods == { "GET", "OPTIONS" }

GpRequests(max) ==
  { [host |-> h, path |-> p, method |-> m, proxied |-> x] :
      h \in Hosts(max), p \in Paths, m \in Methods, x \in BOOLEAN }

\* Base-10 value of a digit string.
RECURSIVE DigitsValue(_, _, _)
DigitsValue(ds, i, acc) ==
  IF i > Len(ds) THEN acc ELSE DigitsValue(ds, i + 1, 10 * acc + ds[i])

\* The port a segment denotes: its value when it is a digit string that
\* parses as a u16 greater than 0, else 0 (no port).
ParsePort(seg) ==
  IF seg.kind # "num" THEN 0
  ELSE LET v == DigitsValue(seg.digits, 1, 0)
       IN IF v > U16_MAX THEN 0 ELSE v

Verdict(kind, port, message) == [kind |-> kind, port |-> port, message |-> message]

FamilyVerdict_cmux_by_workspace_rules(label) ==
  LET n == Len(label)
  IN IF n = 3 /\ label[1] = Word("port") /\ label[2].kind = "num"
     THEN IF ParsePort(label[2]) = 0
          THEN Verdict("RejectPort", 0, "Invalid port in cmux proxy subdomain")
          ELSE Verdict("PortRoute", ParsePort(label[2]), "")
     ELSE IF n >= 3 /\ label[1] = Word("cmux") /\ ParsePort(label[n]) # 0
     THEN Verdict("CmuxRoute", ParsePort(label[n]), "")
     ELSE IF n < 3
          THEN Verdict("RejectSyntax", 0, "Invalid cmux subdomain")
          ELSE IF ParsePort(label[n - 1]) = 0
          THEN Verdict("RejectPort", 0, "Invalid port in subdomain")
          ELSE Verdict("WorkspaceRoute", ParsePort(label[n - 1]), "")

FamilyVerdict_workspace_port_last(label) ==
  LET n == Len(label)
  IN IF n = 3 /\ label[1] = Word("port") /\ label[2].kind = "num"
     THEN IF ParsePort(label[2]) = 0
          THEN Verdict("RejectPort", 0, "Invalid port in cmux proxy subdomain")
          ELSE Verdict("PortRoute", ParsePort(label[2]), "")
     ELSE IF n >= 2 /\ label[1] = Word("cmux")
     THEN IF n < 3
          THEN Verdict("RejectSyntax", 0, "Invalid cmux proxy subdomain")
          ELSE IF ParsePort(label[n]) = 0
          THEN Verdict("RejectPort", 0, "Invalid port in cmux proxy subdomain")
          ELSE Verdict("CmuxRoute", ParsePort(label[n]), "")
     ELSE IF n < 3
          THEN Verdict("RejectSyntax", 0, "Invalid cmux subdomain")
          ELSE IF ParsePort(label[n]) = 0
          THEN Verdict("RejectPort", 0, "Invalid port in subdomain")
          ELSE Verdict("WorkspaceRoute", ParsePort(label[n]), "")

\* The family tests after Apex and ServiceWorker, in order: Port, Cmux,
\* Workspace.
FamilyVerdict(label) ==
  LET n == Len(label)
  IN IF n = 3 /\ label[1] = Word("port") /\ label[2].kind = "num"
     THEN \* port-(\d+)-[A-Za-z0-9]+
          IF ParsePort(label[2]) = 0
          THEN Verdict("RejectPort", 0, "Invalid port in cmux proxy subdomain")
          ELSE Verdict("PortRoute", ParsePort(label[2]), "")
     ELSE IF n >= 2 /\ label[1] = Word("cmux")
     THEN \* cmux-<slug>-(\d+) or cmux-<slug>-<scope>-(\d+)
          IF n < 3
          THEN Verdict("RejectSyntax", 0, "Invalid cmux proxy subdomain")
          ELSE IF ParsePort(label[n]) = 0
          THEN Verdict("RejectPort", 0, "Invalid port in cmux proxy subdomain")
          ELSE Verdict("CmuxRoute", ParsePort(label[n]), "")
     ELSE \* <name>-(\d+)-<vmslug>, the name possibly holding hyphens
          IF n < 3
          THEN Verdict("RejectSyntax", 0, "Invalid cmux subdomain")
          ELSE IF ParsePort(label[n - 1]) = 0
          THEN Verdict("RejectPort", 0, "Invalid port in subdomain")
          ELSE Verdict("WorkspaceRoute", ParsePort(label[n - 1]), "")

RouteVerdict_families_first(host, path, method) ==
  IF host.apex /\ path = "/" /\ method = "GET" THEN Verdict("ApexGreeting", 0, "")
  ELSE IF host.apex
  THEN (IF path = "/proxy-sw.js" THEN Verdict("ServiceWorker", 0, "")
        ELSE Verdict("RejectSyntax", 0, "Invalid cmux subdomain"))
  ELSE IF FamilyVerdict(host.label).kind \in { "PortRoute", "CmuxRoute", "WorkspaceRoute" }
  THEN FamilyVerdict(host.label)
  ELSE IF path = "/proxy-sw.js" THEN Verdict("ServiceWorker", 0, "")
  ELSE FamilyVerdict(host.label)

\* The verdict before the loop header is looked at.
RouteVerdict(host, path, method) ==
  IF host.apex /\ path = "/" /\ method = "GET" THEN Verdict("ApexGreeting", 0, "")
  ELSE IF path = "/proxy-sw.js" THEN Verdict("ServiceWorker", 0, "")
  ELSE IF host.apex THEN Verdict("RejectSyntax", 0, "Invalid cmux subdomain")
  ELSE FamilyVerdict(host.label)

RouteKinds == { "PortRoute", "CmuxRoute", "WorkspaceRoute" }

ParseVerdict_workspace_not_upgraded(host, path, method, proxied) ==
  LET v == RouteVerdict(host, path, method)
  IN IF proxied /\ v.kind \in { "PortRoute", "CmuxRoute" }
     THEN Verdict("LoopDetected", 0, "") ELSE v

\* Section 4.A, cross-cutting rule: a route verdict of a request carrying
\* X-Cmux-Proxied: true becomes LoopDetected.
ParseVerdict(host, path, method, proxied) ==
  LET v == RouteVerdict(host, path, method)
  IN IF proxied /\ v.kind \in RouteKinds THEN Verdict("LoopDetected", 0, "") ELSE v

Response(status, body) == [status |-> status, body |-> body]
NoResponse == Response(0, "")

AnswerOf_preflight_forwarded(v, method) ==
  IF v.kind = "ApexGreeting" THEN Response(200, "cmux!")
  ELSE IF v.kind = "ServiceWorker" THEN Response(200, "proxy-sw.js")
  ELSE IF v.kind \in { "RejectSyntax", "RejectPort" } THEN Response(400, v.message)
  ELSE IF v.kind = "LoopDetected" THEN Response(508, "Loop detected in proxy")
  ELSE NoResponse

\* What the proxy does with a verdict: the response it gives at once, or
\* NoResponse when the request is forwarded to the upstream.
AnswerOf(v, method) ==
  IF v.kind = "ApexGreeting" THEN Response(200, "cmux!")
  ELSE IF v.kind = "ServiceWorker" THEN Response(200, "proxy-sw.js")
  ELSE IF v.kind \in { "RejectSyntax", "RejectPort" } THEN Response(400, v.message)
  ELSE IF v.kind = "LoopDetected" THEN Response(508, "Loop detected in proxy")
  ELSE IF method = "OPTIONS" /\ v.kind \in { "PortRoute", "CmuxRoute" } THEN Response(204, "")
  ELSE NoResponse

VARIABLES
  gpPhase,      \* "idle" | "received" | "forwarding" | "done"
  gpReq,        \* the request being served
  gpVerdict,    \* its routing verdict
  gpResp,       \* the response given to the client
  gpUpstream    \* number of upstream connections opened for the request

gpVars == <<gpPhase, gpReq, gpVerdict, gpResp, gpUpstream>>

NoRequest == [host |-> [apex |-> TRUE, label |-> <<>>], path |-> "", method |-> "", proxied |-> FALSE]

\* A request arrives.
GpReceive ==
  /\ gpPhase = "idle"
  /\ \E r \in GpRequests(MaxSegs) : gpReq' = r
  /\ gpPhase' = "received"
  /\ gpVerdict' = Verdict("", 0, "")
  /\ gpResp' = NoResponse
  /\ gpUpstream' = 0

\* The request is routed: answered at once, or forwarded, which opens the
\* upstream connection.
GpRoute ==
  /\ gpPhase = "received"
  /\ \E v \in { ParseVerdict(gpReq.host, gpReq.path, gpReq.method, gpReq.proxied) } :
       /\ gpVerdict' = v
       /\ IF AnswerOf(v, gpReq.method) # NoResponse
          THEN /\ gpResp' = AnswerOf(v, gpReq.method)
               /\ gpPhase' = "done"
               /\ UNCHANGED gpUpstream
          ELSE /\ gpUpstream' = gpUpstream + 1
               /\ gpPhase' = "forwarding"
               /\ UNCHANGED gpResp
  /\ UNCHANGED gpReq

\* The upstream dial fails (502, single shot) or the upstream answers.
GpUpstreamReply ==
  /\ gpPhase = "forwarding"
  /\ \E ok \in BOOLEAN :
       gpResp' = IF ok THEN Response(200, "upstream") ELSE Response(502, "upstream error")
  /\ gpPhase' = "done"
  /\ UNCHANGED <<gpReq, gpVerdict, gpUpstream>>

\* The connection is ready for the next request.
GpFinish ==
  /\ gpPhase = "done"
  /\ gpPhase' = "idle"
  /\ gpReq' = NoRequest
  /\ gpVerdict' = Verdict("", 0, "")
  /\ gpResp' = NoResponse
  /\ gpUpstream' = 0


\* ======================================================================
\* cmux-proxy: header-routed HTTP, upgrade and CONNECT handling
\* (crates/cmux-proxy/src/lib.rs)
\* ======================================================================

\* How many times one request may enter the proxy before the model stops
\* following it.
MaxHops == 3

\* A header value: absent, or a string given as a text that does not end in a
\* digit followed by its trailing digits.
HdrAbsent == [present |-> FALSE, text |-> "", digits |-> <<>>]
Hdr(text, digits) == [present |-> TRUE, text |-> text, digits |-> digits]

\* The address the proxy listens on and its default upstream host, as the
\* tests configure them (both the loopback address).
LOCALHOST == <<127, 0, 0, 1>>
ListenPort == Hdr("", <<8, 0, 8, 0>>)
AppPort == Hdr("", <<3, 0, 0, 0>>)

PortHeaders ==
  { HdrAbsent, Hdr("abc", <<>>), Hdr("", <<0>>), Hdr("", <<7, 0, 0, 0, 0>>), ListenPort, AppPort }
WorkspaceHeaders ==
  { HdrAbsent, Hdr("workspace", <<>>), Hdr("workspace-", <<1>>), Hdr("ws-", <<2, 5, 7>>),
    Hdr("ws-", <<6, 5, 5, 3, 7>>), Hdr("ws-", <<9, 9, 9, 9, 9, 9, 9, 9, 9, 9, 9>>) }

PxRequests ==
  { [method |-> m, port |-> ph, workspace |-> wh, connection_upgrade |-> cu,
     upgrade |-> up, proxied |-> x] :
      m \in { "GET", "CONNECT" }, ph \in PortHeaders, wh \in WorkspaceHeaders,
      cu \in BOOLEAN, up \in BOOLEAN, x \in BOOLEAN }

Ok(v) == [ok |-> TRUE, value |-> v, resp |-> NoResponse]
Err(resp) == [ok |-> FALSE, value |-> 0, resp |-> resp]

response_with(status, msg) == Response(status, msg)

get_port_from_header(headers) ==
  IF ~headers.port.present
  THEN Err(response_with(400, "missing required header: X-Cmux-Port-Internal"))
  ELSE IF \/ headers.port.text # ""
          \/ headers.port.digits = <<>>
          \/ DigitsValue(headers.port.digits, 1, 0) > U16_MAX
  THEN Err(response_with(400, "X-Cmux-Port-Internal: must be a number 1-65535"))
  ELSE IF DigitsValue(headers.port.digits, 1, 0) = 0
  THEN Err(response_with(400, "X-Cmux-Port-Internal: must be 1-65535"))
  ELSE Ok(DigitsValue(headers.port.digits, 1, 0))

workspace_ip_from_index(n) == <<127, 18, (n \div 256) % 256, n % 256>>

\* str::parse::<u32>() of a string of digits.  The digit strings of the
\* model hold at most five digits or eleven: one of eleven is above u32::MAX.
parse_u32(digits) ==
  IF digits = <<>> \/ Len(digits) > 10 THEN None
  ELSE Some(DigitsValue(digits, 1, 0))

\* The trailing digits of the workspace name are its index.
workspace_ip_from_name(name) ==
  IF name.digits = <<>> THEN None
  ELSE IF ~parse_u32(name.digits).some THEN None
  ELSE Some(workspace_ip_from_index(parse_u32(name.digits).v))

upstream_host_from_headers(headers, default_host) ==
  IF ~headers.workspace.present THEN Ok(default_host)
  ELSE IF ~parse_u32(headers.workspace.digits).some
  THEN Err(response_with(400, "X-Cmux-Workspace-Internal: expected name ending in digits (e.g., workspace-1)"))
  ELSE Ok(workspace_ip_from_index(parse_u32(headers.workspace.digits).v))

NoTarget == [host |-> <<>>, port |-> 0]

\* The outcome of a handler: the response it returns itself, or the request it
\* sends on ("http", "upgrade") or the tunnel it spawns ("connect").
Answer(resp) == [kind |-> "answer", resp |-> resp, target |-> NoTarget]
Outgoing(kind, host, port) ==
  [kind |-> kind, resp |-> NoResponse, target |-> [host |-> host, port |-> port]]

is_upgrade(req) == req.connection_upgrade /\ req.upgrade

handle_http_or_ws(req, cfg) ==
  LET port == get_port_from_header(req)
      upstream_host == upstream_host_from_headers(req, cfg.upstream_host)
  IN IF ~port.ok THEN Answer(port.resp)
     ELSE IF ~upstream_host.ok THEN Answer(upstream_host.resp)
     ELSE IF is_upgrade(req) THEN Outgoing("upgrade", upstream_host.value, port.value)
     ELSE Outgoing("http", upstream_host.value, port.value)

handle_connect(req, cfg) ==
  LET port == get_port_from_header(req)
      upstream_host == upstream_host_from_headers(req, cfg.upstream_host)
  IN IF ~port.ok THEN Answer(port.resp)
     ELSE IF ~upstream_host.ok THEN Answer(upstream_host.resp)
     ELSE Outgoing("connect", upstream_host.value, port.value)

handle(req, cfg) ==
  IF req.method = "CONNECT" THEN handle_connect(req, cfg) ELSE handle_http_or_ws(req, cfg)

ProxyConfig == [listen |-> [host |-> LOCALHOST, port |-> DigitsValue(ListenPort.digits, 1, 0)],
                upstream_host |-> LOCALHOST]

\* Who accepts a connection to a target: the proxy itself, an application
\* (on the loopback address and on workspace 1), or nobody.
ListenerAt(target) ==
  IF target = ProxyConfig.listen THEN "proxy"
  ELSE IF /\ target.port = DigitsValue(AppPort.digits, 1, 0)
          /\ target.host \in { LOCALHOST, workspace_ip_from_index(1) }
  THEN "app"
  ELSE "none"

VARIABLES
  pxPhase,     \* "idle" | "handling" | "forwarded" | "connecting" | "tunnel" | "done"
  pxReq,       \* the request the proxy is handling, as it arrived
  pxOut,       \* the request as the proxy sent it on, and its target
  pxResp,      \* the response returned to the client
  pxHops,      \* how many times the request has entered the proxy
  pxForwards,  \* how many times the request has been sent to an upstream
  pxUpstream   \* the status the upstream answered with, 0 before it answers

pxVars == <<pxPhase, pxReq, pxOut, pxResp, pxHops, pxForwards, pxUpstream>>

\* The statuses an upstream answers an upgrade request with.
UpstreamStatuses == { 101, 200, 404 }

\* format!("upstream did not switch protocols: {}", upstream_resp.status())
did_not_switch_protocols(status) ==
  CASE status = 200 -> "upstream did not switch protocols: 200 OK"
    [] status = 404 -> "upstream did not switch protocols: 404 Not Found"
    [] OTHER -> "upstream did not switch protocols"

NoPxRequest ==
  [method |-> "", port |-> HdrAbsent, workspace |-> HdrAbsent, connection_upgrade |-> FALSE,
   upgrade |-> FALSE, proxied |-> FALSE]
NoOut == [kind |-> "", req |-> NoPxRequest, target |-> NoTarget]

\* A client sends a request.
PxReceive ==
  /\ pxPhase = "idle"
  /\ \E r \in PxRequests : pxReq' = r
  /\ pxPhase' = "handling"
  /\ pxHops' = 1
  /\ pxForwards' = 0
  /\ pxOut' = NoOut
  /\ pxResp' = NoResponse
  /\ pxUpstream' = 0

\* handle(): the request is answered, sent on with only its URI rewritten, or
\* (CONNECT) answered 200 with the tunnel task spawned.
PxHandle ==
  /\ pxPhase = "handling"
  /\ \E res \in { handle(pxReq, ProxyConfig) } :
       IF res.kind = "answer"
       THEN /\ pxResp' = res.resp
            /\ pxPhase' = "done"
            /\ UNCHANGED <<pxOut, pxForwards>>
       ELSE IF res.kind = "connect"
       THEN /\ pxResp' = Response(200, "")
            /\ pxOut' = [kind |-> "connect", req |-> NoPxRequest, target |-> res.target]
            /\ pxPhase' = "connecting"
            /\ UNCHANGED pxForwards
       ELSE /\ pxOut' = [kind |-> res.kind, req |-> pxReq, target |-> res.target]
            /\ pxForwards' = pxForwards + 1
            /\ pxPhase' = "forwarded"
            /\ UNCHANGED pxResp
  /\ UNCHANGED <<pxReq, pxHops, pxUpstream>>

\* The request sent on reaches the proxy's own listener: it is handled as an
\* incoming request.
PxReenter ==
  /\ pxPhase = "forwarded"
  /\ ListenerAt(pxOut.target) = "proxy"
  /\ pxHops < MaxHops
  /\ pxReq' = pxOut.req
  /\ pxHops' = pxHops + 1
  /\ pxPhase' = "handling"
  /\ UNCHANGED <<pxOut, pxResp, pxForwards, pxUpstream>>

\* An upstream reply that takes any answer to an upgrade request for a switch.
PxUpstreamReply_any_status_switches ==
  /\ pxPhase = "forwarded"
  /\ ListenerAt(pxOut.target) # "proxy"
  /\ IF ListenerAt(pxOut.target) = "none"
     THEN /\ pxResp' = response_with(502, IF pxOut.kind = "upgrade"
                                            THEN "upgrade upstream error" ELSE "upstream error")
          /\ pxPhase' = "done"
          /\ UNCHANGED pxUpstream
     ELSE IF pxOut.kind = "http"
     THEN /\ pxResp' = Response(200, "upstream")
          /\ pxPhase' = "done"
          /\ pxUpstream' = 200
     ELSE \E status \in UpstreamStatuses :
            /\ pxUpstream' = status
            /\ pxResp' = Response(101, "")
            /\ pxPhase' = "tunnel"
  /\ UNCHANGED <<pxReq, pxOut, pxHops, pxForwards>>

\* The upstream answers the request sent on, or cannot be reached.  An
\* upgrade request answered with 101 is answered 101 and the tunnel task is
\* spawned; answered with anything else it is answered 502.
PxUpstreamReply ==
  /\ pxPhase = "forwarded"
  /\ ListenerAt(pxOut.target) # "proxy"
  /\ IF ListenerAt(pxOut.target) = "none"
     THEN /\ pxResp' = response_with(502, IF pxOut.kind = "upgrade"
                                            THEN "upgrade upstream error" ELSE "upstream error")
          /\ pxPhase' = "done"
          /\ UNCHANGED pxUpstream
     ELSE IF pxOut.kind = "http"
     THEN /\ pxResp' = Response(200, "upstream")
          /\ pxPhase' = "done"
          /\ pxUpstream' = 200
     ELSE \E status \in UpstreamStatuses :
            /\ pxUpstream' = status
            /\ IF status = 101
               THEN /\ pxResp' = Response(101, "")
                    /\ pxPhase' = "tunnel"
               ELSE /\ pxResp' = response_with(502, did_not_switch_protocols(status))
                    /\ pxPhase' = "done"
  /\ UNCHANGED <<pxReq, pxOut, pxHops, pxForwards>>

\* The CONNECT tunnel task dials the target.
PxConnect ==
  /\ pxPhase = "connecting"
  /\ pxPhase' = IF ListenerAt(pxOut.target) = "none" THEN "done" ELSE "tunnel"
  /\ UNCHANGED <<pxReq, pxOut, pxResp, pxHops, pxForwards, pxUpstream>>

\* The exchange is over: the response was delivered, the tunnel closed, or
\* the client went away while the request was in flight.
PxFinish ==
  /\ pxPhase \in { "done", "tunnel", "forwarded" }
  /\ pxPhase' = "idle"
  /\ pxReq' = NoPxRequest
  /\ pxOut' = NoOut
  /\ pxResp' = NoResponse
  /\ pxHops' = 0
  /\ pxForwards' = 0
  /\ pxUpstream' = 0

\* ======================================================================
\* Stale-while-revalidate fetch (repo::cache::swr_fetch_origin_all_path,
\* called from diff_refs; the function itself is not part of the tree and is
\* modelled from sections 4.F and 5 of the specification)
\* ======================================================================

\* The fetch window, in clock ticks (fetch_window_ms()).
FETCH_WINDOW_MS == 2
\* The clock of the model stops here.
MaxNow == 3
\* Fetches of one repository that may run at the same time.
MaxRunning == 2

Callers == { 1, 2 }
RepoPaths == { "o__r1", "o__r2" }
NeverFetched == -1
NoFetchDone == [at |-> NeverFetched, ok |-> FALSE]

VARIABLES
  swrNow,        \* the clock
  swrLastFetch,  \* the timestamp map: path -> completion time of the last fetch
  swrLock,       \* holder of the lock guarding the map (0: free)
  swrRunning,    \* path -> number of fetches running in the background
  swrStale,      \* path -> the local refs are behind the remote
  swrPc,         \* caller -> "idle" | "call" | "locked" | "read"
  swrPath,       \* caller -> the repository path of its diff request ("": none)
  swrLastDone    \* path -> when the last fetch completed, and how

swrVars ==
  <<swrNow, swrLastFetch, swrLock, swrRunning, swrStale, swrPc, swrPath, swrLastDone>>

\* Whether a fetch of the path completed less than window_ms ago.
fetched_within(last_fetch, path, now, window_ms) ==
  last_fetch[path] # NeverFetched /\ now - last_fetch[path] < window_ms

record_fetch_on_success(last_fetch, path, now, ok) ==
  IF ok THEN [last_fetch EXCEPT ![path] = now] ELSE last_fetch

\* The timestamp is updated whether or not the fetch succeeded.
record_fetch(last_fetch, path, now, ok) == [last_fetch EXCEPT ![path] = now]

\* The requests that are inside swr_fetch for the path, or about to call it.
InSwrCall(path) == { c \in Callers : swrPc[c] \in { "call", "locked" } /\ swrPath[c] = path }

\* Time passes.
SwrTick ==
  /\ swrNow < MaxNow
  /\ swrNow' = swrNow + 1
  /\ UNCHANGED <<swrLastFetch, swrLock, swrRunning, swrStale, swrPc, swrPath, swrLastDone>>

\* The remote gets new commits: the local refs of the path are now stale.
SwrRemotePush(path) ==
  /\ ~swrStale[path]
  /\ swrStale' = [swrStale EXCEPT ![path] = TRUE]
  /\ UNCHANGED <<swrNow, swrLastFetch, swrLock, swrRunning, swrPc, swrPath, swrLastDone>>

\* diff_refs for a repository: with originPathOverride the SWR fetch is
\* skipped, otherwise swr_fetch_origin_all_path is called.
SwrDiffRefs(c, path, origin_path_override) ==
  /\ swrPc[c] = "idle"
  /\ ~origin_path_override => swrRunning[path] + Cardinality(InSwrCall(path)) < MaxRunning
  /\ swrPath' = [swrPath EXCEPT ![c] = path]
  /\ swrPc' = [swrPc EXCEPT ![c] = IF origin_path_override THEN "read" ELSE "call"]
  /\ UNCHANGED <<swrNow, swrLastFetch, swrLock, swrRunning, swrStale, swrLastDone>>

\* swr_fetch takes the lock of the timestamp map.
SwrAcquire(c) ==
  /\ swrPc[c] = "call"
  /\ swrLock = 0
  /\ swrLock' = c
  /\ swrPc' = [swrPc EXCEPT ![c] = "locked"]
  /\ UNCHANGED <<swrNow, swrLastFetch, swrRunning, swrStale, swrPath, swrLastDone>>

\* swr_fetch(path, window_ms): a no-op if a fetch completed within the
\* window, otherwise the fetch is started in the background; either way the
\* call returns at once.
swr_fetch_origin_all_path(c, path, window_ms) ==
  /\ swrPc[c] = "locked"
  /\ swrLock = c
  /\ IF fetched_within(swrLastFetch, path, swrNow, window_ms)
     THEN UNCHANGED swrRunning
     ELSE swrRunning' = [swrRunning EXCEPT ![path] = @ + 1]
  /\ swrLock' = 0
  /\ swrPc' = [swrPc EXCEPT ![c] = "read"]
  /\ UNCHANGED <<swrNow, swrLastFetch, swrStale, swrPath, swrLastDone>>

SwrFetchCall(c) == swr_fetch_origin_all_path(c, swrPath[c], FETCH_WINDOW_MS)

\* A background fetch ends, well or badly: the timestamp is recorded under
\* the lock; a successful fetch brings the refs up to date.
SwrFetchDone(path, ok) ==
  /\ swrRunning[path] > 0
  /\ swrLock = 0
  /\ UNCHANGED swrLock
  /\ swrRunning' = [swrRunning EXCEPT ![path] = @ - 1]
  /\ swrLastFetch' = record_fetch(swrLastFetch, path, swrNow, ok)
  /\ swrLastDone' = [swrLastDone EXCEPT ![path] = [at |-> swrNow, ok |-> ok]]
  /\ swrStale' = [swrStale EXCEPT ![path] = IF ok THEN FALSE ELSE @]
  /\ UNCHANGED <<swrNow, swrPc, swrPath>>

SwrRead_after_fetch(c) ==
  /\ swrPc[c] = "read"
  /\ swrRunning[swrPath[c]] = 0
  /\ swrPc' = [swrPc EXCEPT ![c] = "idle"]
  /\ swrPath' = [swrPath EXCEPT ![c] = ""]
  /\ UNCHANGED <<swrNow, swrLastFetch, swrLock, swrRunning, swrStale, swrLastDone>>

\* The diff request opens the repository and resolves the refs as they are.
SwrRead(c) ==
  /\ swrPc[c] = "read"
  /\ swrPc' = [swrPc EXCEPT ![c] = "idle"]
  /\ swrPath' = [swrPath EXCEPT ![c] = ""]
  /\ UNCHANGED <<swrNow, swrLastFetch, swrLock, swrRunning, swrStale, swrLastDone>>

\* ======================================================================
\* Upgrade and CONNECT tunnels (crates/cmux-proxy/src/lib.rs, the tasks
\* spawned by handle_upgrade and handle_connect around copy_bidirectional)
\* ======================================================================

\* Bytes each side of a tunnel may write.
MaxBytes == 2

Bytes == { "a", "b" }
\* A direction is named by its reader: "c2u" reads from the client and writes
\* to the upstream, "u2c" the other way round.
Directions == { "c2u", "u2c" }

VARIABLES
  tunPhase,      \* "none" | "spawned_upgrade" | "spawned_connect" | "dialing" | "open"
                 \* | "shutdown_client" | "shutdown_upstream" | "ended"
                 \* | "failed" (no tunnel)
  tunSent,       \* direction -> bytes written by the sending peer
  tunInbox,      \* direction -> bytes the proxy has not read yet
  tunSrcClosed,  \* direction -> the sending peer has closed its write half
  tunBuf,        \* direction -> the copy buffer: bytes read, not yet written
  tunDelivered,  \* direction -> bytes written to the receiving peer
  tunState,      \* direction -> "running" | "shutting_down" | "done"
  tunWriterShut  \* direction -> the writer of the direction has been shut down

tunVars ==
  <<tunPhase, tunSent, tunInbox, tunSrcClosed, tunBuf, tunDelivered, tunState, tunWriterShut>>

take_reversed(bytes, k) ==
  [i \in 1..k |-> bytes[k + 1 - i]]

\* The first k of the bytes, as they are.
take(bytes, k) == SubSeq(bytes, 1, k)
drop(bytes, k) == SubSeq(bytes, k + 1, Len(bytes))

\* handle_upgrade or handle_connect spawns the tunnel task.
TunSpawn(kind) ==
  /\ tunPhase = "none"
  /\ tunPhase' = IF kind = "upgrade" THEN "spawned_upgrade" ELSE "spawned_connect"
  /\ UNCHANGED <<tunSent, tunInbox, tunSrcClosed, tunBuf, tunDelivered, tunState,
                 tunWriterShut>>

\* The connections are upgraded (try_join of both for an upgrade, the client
\* side alone for CONNECT), or the upgrade fails and the task ends.
TunUpgraded(ok) ==
  /\ tunPhase \in { "spawned_upgrade", "spawned_connect" }
  /\ tunPhase' = IF ~ok THEN "failed"
                 ELSE IF tunPhase = "spawned_connect" THEN "dialing" ELSE "open"
  /\ UNCHANGED <<tunSent, tunInbox, tunSrcClosed, tunBuf, tunDelivered,
                 tunState, tunWriterShut>>

\* CONNECT: TcpStream::connect to the target; on failure only the client side
\* is shut down.
TunDial(ok) ==
  /\ tunPhase = "dialing"
  /\ IF ok
     THEN /\ tunPhase' = "open"
          /\ UNCHANGED tunWriterShut
     ELSE /\ tunPhase' = "failed"
          /\ tunWriterShut' = [tunWriterShut EXCEPT !["u2c"] = TRUE]
  /\ UNCHANGED <<tunSent, tunInbox, tunSrcClosed, tunBuf, tunDelivered,
                 tunState>>

\* A peer writes a byte into the tunnel.
TunSend(d, b) ==
  /\ tunPhase = "open"
  /\ ~tunSrcClosed[d]
  /\ Len(tunSent[d]) < MaxBytes
  /\ tunSent' = [tunSent EXCEPT ![d] = Append(@, b)]
  /\ tunInbox' = [tunInbox EXCEPT ![d] = Append(@, b)]
  /\ UNCHANGED <<tunPhase, tunSrcClosed, tunBuf, tunDelivered, tunState,
                 tunWriterShut>>

\* A peer closes its write half.
TunPeerClose(d) ==
  /\ tunPhase = "open"
  /\ ~tunSrcClosed[d]
  /\ tunSrcClosed' = [tunSrcClosed EXCEPT ![d] = TRUE]
  /\ UNCHANGED <<tunPhase, tunSent, tunInbox, tunBuf, tunDelivered,
                 tunState, tunWriterShut>>

\* copy_bidirectional, one direction: the reader yields k bytes into the
\* copy buffer.
TunRead(d, k) ==
  /\ tunPhase = "open"
  /\ tunState[d] = "running"
  /\ tunBuf[d] = <<>>
  /\ k <= Len(tunInbox[d])
  /\ tunBuf' = [tunBuf EXCEPT ![d] = take(tunInbox[d], k)]
  /\ tunInbox' = [tunInbox EXCEPT ![d] = drop(@, k)]
  /\ UNCHANGED <<tunPhase, tunSent, tunSrcClosed, tunDelivered, tunState,
                 tunWriterShut>>

\* copy_bidirectional, one direction: the writer takes k bytes of the buffer.
TunWrite(d, k) ==
  /\ tunPhase = "open"
  /\ tunState[d] = "running"
  /\ k <= Len(tunBuf[d])
  /\ tunDelivered' = [tunDelivered EXCEPT ![d] = @ \o take(tunBuf[d], k)]
  /\ tunBuf' = [tunBuf EXCEPT ![d] = drop(@, k)]
  /\ UNCHANGED <<tunPhase, tunSent, tunInbox, tunSrcClosed, tunState,
                 tunWriterShut>>

\* copy_bidirectional, one direction: the reader returns EOF with the buffer
\* flushed; the direction goes on to shut its writer down.
TunReadEof(d) ==
  /\ tunPhase = "open"
  /\ tunState[d] = "running"
  /\ tunSrcClosed[d]
  /\ tunInbox[d] = <<>>
  /\ tunBuf[d] = <<>>
  /\ tunState' = [tunState EXCEPT ![d] = "shutting_down"]
  /\ UNCHANGED <<tunPhase, tunSent, tunInbox, tunSrcClosed, tunBuf,
                 tunDelivered, tunWriterShut>>

TunShutdownWriter_skipped(d) ==
  /\ tunPhase = "open"
  /\ tunState[d] = "shutting_down"
  /\ tunState' = [tunState EXCEPT ![d] = "done"]
  /\ UNCHANGED <<tunPhase, tunSent, tunInbox, tunSrcClosed, tunBuf,
                 tunDelivered, tunWriterShut>>

\* copy_bidirectional, one direction: poll_shutdown of the writer.
TunShutdownWriter(d) ==
  /\ tunPhase = "open"
  /\ tunState[d] = "shutting_down"
  /\ tunWriterShut' = [tunWriterShut EXCEPT ![d] = TRUE]
  /\ tunState' = [tunState EXCEPT ![d] = "done"]
  /\ UNCHANGED <<tunPhase, tunSent, tunInbox, tunSrcClosed, tunBuf,
                 tunDelivered>>

\* copy_bidirectional returns: Ok once both directions are done.
TunCopyDone ==
  /\ tunPhase = "open"
  /\ \A d \in Directions : tunState[d] = "done"
  /\ tunPhase' = "shutdown_client"
  /\ UNCHANGED <<tunSent, tunInbox, tunSrcClosed, tunBuf, tunDelivered,
                 tunState, tunWriterShut>>

\* copy_bidirectional returns: Err as soon as a read, write or shutdown of
\* either direction fails.
TunCopyError(d) ==
  /\ tunPhase = "open"
  /\ tunState[d] # "done"
  /\ tunPhase' = "shutdown_client"
  /\ UNCHANGED <<tunSent, tunInbox, tunSrcClosed, tunBuf, tunDelivered, tunState,
                 tunWriterShut>>

\* After the copy: shutdown() of the client side, then of the upstream side.
TunShutdownClient ==
  /\ tunPhase = "shutdown_client"
  /\ tunWriterShut' = [tunWriterShut EXCEPT !["u2c"] = TRUE]
  /\ tunPhase' = "shutdown_upstream"
  /\ UNCHANGED <<tunSent, tunInbox, tunSrcClosed, tunBuf, tunDelivered,
                 tunState>>

TunShutdownUpstream ==
  /\ tunPhase = "shutdown_upstream"
  /\ tunWriterShut' = [tunWriterShut EXCEPT !["c2u"] = TRUE]
  /\ tunPhase' = "ended"
  /\ UNCHANGED <<tunSent, tunInbox, tunSrcClosed, tunBuf, tunDelivered,
                 tunState>>

\* ======================================================================
\* Start-up and graceful shutdown (crates/cmux-proxy/src/lib.rs,
\* spawn_proxy and spawn_proxy_multi)
\* ======================================================================

\* Connections one listener may have in flight.
MaxConns == 2

\* The listen addresses given to spawn_proxy_multi; spawn_proxy has the first.
Listens == { 1, 2 }
ListensOf(mode) == IF mode = "single" THEN { 1 } ELSE IF mode = "multi" THEN Listens ELSE {}

VARIABLES
  sdMode,        \* "" | "single" (spawn_proxy) | "multi" (spawn_proxy_multi)
  sdShutdown,    \* the shutdown future: "pending" | "resolved"
  sdNotifier,    \* the task awaiting shutdown (multi): "none" | "waiting" | "done"
  sdWaiting,     \* listener -> its Notified future is registered with the Notify
  sdNotified,    \* listener -> its Notified future has been woken
  sdServer,      \* listener -> "none" | "unpolled" | "serving" | "draining" | "exited"
  sdConns,       \* listener -> connections in flight
  sdHandle       \* the JoinHandle returned: "none" | "running" | "done"

sdVars == <<sdMode, sdShutdown, sdNotifier, sdWaiting, sdNotified, sdServer, sdConns, sdHandle>>

\* Notify::notify_waiters: the futures registered at this moment are woken;
\* no permit is kept for a future created later.
notify_waiters(waiting, notified) == [i \in Listens |-> notified[i] \/ waiting[i]]

\* Whether the graceful-shutdown signal of a listener's server is ready when
\* the server polls it: the shutdown future itself (spawn_proxy), or the
\* Notified future of the listener (spawn_proxy_multi).
signal_ready(i) ==
  IF sdMode = "single" THEN sdShutdown = "resolved" ELSE sdNotified[i]

\* spawn_proxy / spawn_proxy_multi: the listeners are bound and the tasks
\* spawned; nothing has been polled yet. The shutdown future given may be
\* ready already.
SdSpawn(mode, resolved) ==
  /\ sdMode = ""
  /\ sdMode' = mode
  /\ sdShutdown' = IF resolved THEN "resolved" ELSE "pending"
  /\ sdNotifier' = IF mode = "multi" THEN "waiting" ELSE "none"
  /\ sdServer' = [i \in Listens |-> IF i \in ListensOf(mode) THEN "unpolled" ELSE "none"]
  /\ sdHandle' = "running"
  /\ UNCHANGED <<sdWaiting, sdNotified, sdConns>>

\* The caller's shutdown signal fires.
SdSignal ==
  /\ sdMode # ""
  /\ sdShutdown = "pending"
  /\ sdShutdown' = "resolved"
  /\ UNCHANGED <<sdMode, sdNotifier, sdWaiting, sdNotified, sdServer, sdConns, sdHandle>>

\* spawn_proxy_multi, the notifier task: shutdown.await has returned, so
\* notify_waiters() is called and the task ends.
SdNotify ==
  /\ sdNotifier = "waiting"
  /\ sdShutdown = "resolved"
  /\ sdNotified' = notify_waiters(sdWaiting, sdNotified)
  /\ sdNotifier' = "done"
  /\ UNCHANGED <<sdMode, sdShutdown, sdWaiting, sdServer, sdConns, sdHandle>>

\* The first poll of a server task: the server starts serving, and polls its
\* shutdown signal; in spawn_proxy_multi that poll is what creates and
\* registers the Notified future.
SdFirstPoll(i) ==
  /\ sdServer[i] = "unpolled"
  /\ sdServer' = [sdServer EXCEPT ![i] = "serving"]
  /\ sdWaiting' = IF sdMode = "multi" THEN [sdWaiting EXCEPT ![i] = TRUE] ELSE sdWaiting
  /\ UNCHANGED <<sdMode, sdShutdown, sdNotifier, sdNotified, sdConns, sdHandle>>

\* A listener accepts a connection.
SdAccept(i) ==
  /\ sdServer[i] = "serving"
  /\ sdConns[i] < MaxConns
  /\ sdConns' = [sdConns EXCEPT ![i] = @ + 1]
  /\ UNCHANGED <<sdMode, sdShutdown, sdNotifier, sdWaiting, sdNotified, sdServer, sdHandle>>

\* A connection finishes.
SdConnDone(i) ==
  /\ sdConns[i] > 0
  /\ sdConns' = [sdConns EXCEPT ![i] = @ - 1]
  /\ UNCHANGED <<sdMode, sdShutdown, sdNotifier, sdWaiting, sdNotified, sdServer, sdHandle>>

\* with_graceful_shutdown: the signal is ready, the server stops accepting and
\* waits for its connections.
SdGraceful(i) ==
  /\ sdServer[i] = "serving"
  /\ signal_ready(i)
  /\ sdServer' = [sdServer EXCEPT ![i] = "draining"]
  /\ UNCHANGED <<sdMode, sdShutdown, sdNotifier, sdWaiting, sdNotified, sdConns, sdHandle>>

\* The server future completes once its connections are gone.
SdServerExit(i) ==
  /\ sdServer[i] = "draining"
  /\ sdConns[i] = 0
  /\ sdServer' = [sdServer EXCEPT ![i] = "exited"]
  /\ UNCHANGED <<sdMode, sdShutdown, sdNotifier, sdWaiting, sdNotified, sdConns, sdHandle>>

\* The task behind the JoinHandle ends: server.await has returned
\* (spawn_proxy), or join_next() has yielded every server (spawn_proxy_multi).
SdHandleDone ==
  /\ sdHandle = "running"
  /\ \A i \in ListensOf(sdMode) : sdServer[i] = "exited"
  /\ sdHandle' = "done"
  /\ UNCHANGED <<sdMode, sdShutdown, sdNotifier, sdWaiting, sdNotified, sdServer, sdConns>>

\* ======================================================================
\* Global proxy: two requests served one after the other (section 4.A)
\*
\* A request is what the parser looks at, the host, the path, the method and
\* whether X-Cmux-Proxied is there, together with everything else it carries.
\* ======================================================================

\* One host for every outcome of the parser.
SampleHosts ==
  { [apex |-> TRUE, label |-> <<>>] } \cup
  { [apex |-> FALSE, label |-> l] :
      l \in { << Word("port"), Num(<<8, 0, 8, 0>>), Word("test") >>,
              << Word("port"), Num(<<0>>), Word("test") >>,
              << Word("cmux"), Word("test"), Num(<<8, 0, 8, 0>>) >>,
              << Word("cmux"), Word("test") >>,
              << Word("test"), Num(<<8, 0, 8, 0>>), Word("test") >>,
              << Word("test"), Num(<<7, 0, 0, 0, 0>>), Word("test") >>,
              << Word("test") >> } }

\* The rest of a request: its other headers and its body.
OtherParts ==
  { [headers |-> {}, body |-> ""],
    [headers |-> { "cookie", "origin" }, body |-> "payload"] }

FullRequests ==
  [host : SampleHosts, path : Paths, method : Methods, proxied : BOOLEAN,
   other : OtherParts]

VerdictKinds ==
  { "ApexGreeting", "ServiceWorker", "PortRoute", "CmuxRoute", "WorkspaceRoute",
    "RejectSyntax", "RejectPort", "LoopDetected" }

\* A parser that takes the loop header into account only on a request that
\* carries no other header.
verdict_of_request_bare_only(req) ==
  ParseVerdict(req.host, req.path, req.method,
               req.proxied /\ req.other.headers = {})

\* The verdict of a request: the parser applied to its four inputs.
verdict_of_request(req) ==
  ParseVerdict(req.host, req.path, req.method, req.proxied)

VARIABLES
  rtPhase,    \* "idle" | "first" | "second": how many requests were served
  rtFirst,    \* the first request and its verdict
  rtSecond    \* the second request and its verdict

rtVars == <<rtPhase, rtFirst, rtSecond>>

Served(req, verdict) == [req |-> req, verdict |-> verdict]
NotServed ==
  Served([host |-> [apex |-> TRUE, label |-> <<>>], path |-> "", method |-> "",
          proxied |-> FALSE, other |-> [headers |-> {}, body |-> ""]],
         Verdict("", 0, ""))

\* The proxy serves a request.
RtServeFirst ==
  /\ rtPhase = "idle"
  /\ \E r \in FullRequests : rtFirst' = Served(r, verdict_of_request(r))
  /\ rtPhase' = "first"
  /\ UNCHANGED rtSecond

\* The proxy serves another request, after the first.
RtServeSecond ==
  /\ rtPhase = "first"
  /\ \E r \in FullRequests : rtSecond' = Served(r, verdict_of_request(r))
  /\ rtPhase' = "second"
  /\ UNCHANGED rtFirst

\* Both requests are forgotten.
RtReset ==
  /\ rtPhase = "second"
  /\ rtPhase' = "idle"
  /\ rtFirst' = NotServed
  /\ rtSecond' = NotServed

\* ======================================================================
\* Diff engine  (apps/server/native/core/src/diff/refs.rs)
\*
\* A repository is a commit graph whose commits carry a tree: a map from path
\* to blob id, and the set of paths whose executable bit is set (the tree
\* walker drops the mode, git itself does not).  A blob is a sequence of bytes;
\* "LF" is the line feed, "NUL" the zero byte and "0xFF" a byte that is not
\* valid UTF-8.  A gitlink is an id that names no blob of the repository.
\* ======================================================================


TreePaths == { "a", "b", "c" }
\* Hash maps are walked in an order the program does not choose; the entries of
\* one loop are listed here in the order of the paths.
PathOrder == << "a", "b", "c" >>
Absent == "-"
Oids == { "t1", "t2", "bin", "link" }

BlobData ==
  [ t1 |-> << "x", "LF" >>,
    t2 |-> << "x", "LF", "y", "LF" >>,
    t3 |-> << "y", "LF" >>,
    bin |-> << "x", "NUL" >> ]

Tree(blobs, exec) == [blobs |-> blobs, exec |-> exec]

\* repo.find_object(id) followed by try_into_blob: a gitlink names a commit
\* of another repository, so the lookup fails.
get_blob_bytes(id) ==
  IF id \in DOMAIN BlobData THEN Some(BlobData[id]) ELSE None

\* Result::unwrap_or_default and Option::unwrap_or_default for a string.
unwrap_or_default(r) == IF r.some THEN r.v ELSE <<>>

is_binary(data) ==
  \E i \in 1..Len(data) : data[i] \in { "NUL", "0xFF" }

\* String::from_utf8_lossy: every byte that is not valid UTF-8 becomes U+FFFD.
from_utf8_lossy(data) ==
  [i \in 1..Len(data) |-> IF data[i] = "0xFF" THEN "U+FFFD" ELSE data[i]]

\* The lines of a text, each with its terminator (TextDiff::from_lines); a
\* last line without a terminator is a line too.
RECURSIVE split_lines(_, _, _)
split_lines(s, i, cur) ==
  IF i > Len(s) THEN (IF cur = <<>> THEN <<>> ELSE << cur >>)
  ELSE IF s[i] = "LF" THEN << Append(cur, "LF") >> \o split_lines(s, i + 1, <<>>)
  ELSE split_lines(s, i + 1, Append(cur, s[i]))

\* str::lines().count()
lines_count(s) == Len(split_lines(s, 1, <<>>))

\* Length of the longest common subsequence of a[i..] and b[j..].
RECURSIVE lcs(_, _, _, _)
lcs(a, b, i, j) ==
  IF i > Len(a) \/ j > Len(b) THEN 0
  ELSE IF a[i] = b[j] THEN 1 + lcs(a, b, i + 1, j + 1)
  ELSE LET x == lcs(a, b, i + 1, j)
           y == lcs(a, b, i, j + 1)
       IN IF x >= y THEN x ELSE y

\* TextDiff::from_lines(old, new): the inserted and the deleted lines of a
\* shortest edit script.
text_diff(old_str, new_str) ==
  LET o == split_lines(old_str, 1, <<>>)
      n == split_lines(new_str, 1, <<>>)
      k == lcs(o, n, 1, 1)
  IN [adds |-> Len(n) - k, dels |-> Len(o) - k]

\* DiffEntry{ .., ..Default::default() }
DiffEntry(filePath, oldPath, status, isBinary) ==
  [ filePath |-> filePath, oldPath |-> oldPath, status |-> status,
    additions |-> 0, deletions |-> 0, isBinary |-> isBinary,
    oldSize |-> None, newSize |-> None,
    oldContent |-> None, newContent |-> None,
    contentOmitted |-> None ]

\* ---- the entries of the tree comparison

\* Emit renames (content identical by OID).
renamed_entry(old_path, new_path, oid, include, max_bytes) ==
  LET new_data == get_blob_bytes(oid)
      bin == IF new_data.some THEN is_binary(new_data.v) ELSE TRUE
      new_sz == IF new_data.some THEN Len(new_data.v) ELSE 0
      e == DiffEntry(new_path, Some(old_path), "renamed", bin)
  IN IF include /\ ~bin
     THEN LET new_str == from_utf8_lossy(new_data.v)
              sized == [e EXCEPT !.newSize = Some(new_sz), !.oldSize = Some(new_sz)]
          IN IF new_sz <= max_bytes
             THEN [sized EXCEPT !.oldContent = Some(new_str),
                                !.newContent = Some(new_str),
                                !.contentOmitted = Some(FALSE)]
             ELSE [sized EXCEPT !.contentOmitted = Some(TRUE)]
     ELSE [e EXCEPT !.contentOmitted = Some(FALSE)]

\* A path of both trees whose blob ids differ.
modified_entry(path, old_id, new_id, include, max_bytes) ==
  LET old_data == get_blob_bytes(old_id)
      new_data == get_blob_bytes(new_id)
      bin == IF old_data.some /\ new_data.some
             THEN is_binary(old_data.v) \/ is_binary(new_data.v)
             ELSE TRUE
      e == DiffEntry(path, None, "modified", bin)
  IN IF include /\ ~bin
     THEN LET old_str == from_utf8_lossy(old_data.v)
              new_str == from_utf8_lossy(new_data.v)
              old_sz == Len(old_str)
              new_sz == Len(new_str)
              sized == [e EXCEPT !.oldSize = Some(old_sz), !.newSize = Some(new_sz)]
          IN IF old_sz + new_sz <= max_bytes
             THEN LET diff == text_diff(old_str, new_str)
                  IN [sized EXCEPT !.additions = diff.adds,
                                   !.deletions = diff.dels,
                                   !.oldContent = Some(old_str),
                                   !.newContent = Some(new_str),
                                   !.contentOmitted = Some(FALSE)]
             ELSE [sized EXCEPT !.contentOmitted = Some(TRUE)]
     ELSE [e EXCEPT !.contentOmitted = Some(FALSE)]

\* An addition that fills in sizes, contents and counts for a binary blob too.
added_entry_binary_counted(path, new_id, include, max_bytes) ==
  LET new_data == get_blob_bytes(new_id)
      bin == IF new_data.some THEN is_binary(new_data.v) ELSE TRUE
      new_sz == IF new_data.some THEN Len(new_data.v) ELSE 0
      e == DiffEntry(path, None, "added", bin)
  IN IF include
     THEN LET new_str == from_utf8_lossy(unwrap_or_default(new_data))
              sized == [e EXCEPT !.newSize = Some(new_sz), !.oldSize = Some(0)]
          IN IF new_sz <= max_bytes
             THEN [sized EXCEPT !.oldContent = Some(<<>>),
                                !.newContent = Some(new_str),
                                !.contentOmitted = Some(FALSE),
                                !.additions = lines_count(new_str)]
             ELSE [sized EXCEPT !.contentOmitted = Some(TRUE)]
     ELSE [e EXCEPT !.contentOmitted = Some(FALSE)]

\* Additions not matched as renames.
added_entry(path, new_id, include, max_bytes) ==
  LET new_data == get_blob_bytes(new_id)
      bin == IF new_data.some THEN is_binary(new_data.v) ELSE TRUE
      new_sz == IF new_data.some THEN Len(new_data.v) ELSE 0
      e == DiffEntry(path, None, "added", bin)
  IN IF include /\ ~bin
     THEN LET new_str == from_utf8_lossy(new_data.v)
              sized == [e EXCEPT !.newSize = Some(new_sz), !.oldSize = Some(0)]
          IN IF new_sz <= max_bytes
             THEN [sized EXCEPT !.oldContent = Some(<<>>),
                                !.newContent = Some(new_str),
                                !.contentOmitted = Some(FALSE),
                                !.additions = lines_count(new_str)]
             ELSE [sized EXCEPT !.contentOmitted = Some(TRUE)]
     ELSE [e EXCEPT !.contentOmitted = Some(FALSE)]

\* Deletions not matched as renames.
deleted_entry(path, old_id, include, max_bytes) ==
  LET old_data == get_blob_bytes(old_id)
      bin == IF old_data.some THEN is_binary(old_data.v) ELSE TRUE
      old_sz == IF old_data.some THEN Len(old_data.v) ELSE 0
      e == DiffEntry(path, None, "deleted", bin)
  IN IF include /\ ~bin
     THEN LET old_str == from_utf8_lossy(old_data.v)
              sized == [e EXCEPT !.oldSize = Some(old_sz)]
          IN IF old_sz <= max_bytes
             THEN [sized EXCEPT !.oldContent = Some(old_str),
                                !.newContent = Some(<<>>),
                                !.contentOmitted = Some(FALSE),
                                !.deletions = lines_count(old_str)]
             ELSE [sized EXCEPT !.contentOmitted = Some(TRUE)]
     ELSE [e EXCEPT !.contentOmitted = Some(FALSE)]

\* ---- path partitions and the pairing of renames

\* A partition that takes every path of the head as a path of the head only.
head_only_of_every_head_path(base_map, head_map) ==
  { p \in TreePaths : head_map[p] # Absent }

base_only_of(base_map, head_map) ==
  { p \in TreePaths : base_map[p] # Absent /\ head_map[p] = Absent }
head_only_of(base_map, head_map) ==
  { p \in TreePaths : head_map[p] # Absent /\ base_map[p] = Absent }

\* id_to_old / id_to_new: the paths of one side that carry a blob id.
paths_with(map, only, oid) == { p \in only : map[p] = oid }

MinOf(x, y) == IF x <= y THEN x ELSE y

\* A pairing that never pops: every old path meets every new path of its blob.
renamed_pairs_choices_without_pop(base_map, head_map) ==
  LET olds == base_only_of(base_map, head_map)
      news == head_only_of(base_map, head_map)
  IN { { pr \in olds \X news : base_map[pr[1]] = head_map[pr[2]] } }

\* The renamed_pairs the loop over id_to_old can build.  For every blob id it
\* pops min(olds.len(), news.len()) times from both lists; the lists were
\* filled in hash order, so which paths meet is not decided by the program.
\* A pair is << old path, new path >>.
renamed_pairs_choices(base_map, head_map) ==
  LET olds == base_only_of(base_map, head_map)
      news == head_only_of(base_map, head_map)
      cand == { pr \in olds \X news : base_map[pr[1]] = head_map[pr[2]] }
  IN { m \in SUBSET cand :
         /\ \A x, y \in m : (x[1] = y[1] \/ x[2] = y[2]) => x = y
         /\ \A oid \in Oids :
              Cardinality({ pr \in m : base_map[pr[1]] = oid })
                = MinOf(Cardinality(paths_with(base_map, olds, oid)),
                        Cardinality(paths_with(head_map, news, oid))) }

\* The paths of PathOrder that are in the set, in that order.
in_order(paths) == SelectSeq(PathOrder, LAMBDA p : p \in paths)

\* The Vec `out` of the tree comparison for one choice of renamed_pairs:
\* renames, then modifications, then additions, then deletions.
tree_diff(base_map, head_map, pairs, include, max_bytes) ==
  LET base_only == base_only_of(base_map, head_map) \ { pr[1] : pr \in pairs }
      head_only == head_only_of(base_map, head_map) \ { pr[2] : pr \in pairs }
      ren == in_order({ pr[1] : pr \in pairs })
      mod == in_order({ p \in TreePaths : /\ base_map[p] # Absent
                                          /\ head_map[p] # Absent
                                          /\ base_map[p] # head_map[p] })
      add == in_order(head_only)
      del == in_order(base_only)
      new_of(o) == (CHOOSE pr \in pairs : pr[1] = o)[2]
  IN    [i \in 1..Len(ren) |->
           renamed_entry(ren[i], new_of(ren[i]), base_map[ren[i]], include, max_bytes)]
     \o [i \in 1..Len(mod) |->
           modified_entry(mod[i], base_map[mod[i]], head_map[mod[i]], include, max_bytes)]
     \o [i \in 1..Len(add) |-> added_entry(add[i], head_map[add[i]], include, max_bytes)]
     \o [i \in 1..Len(del) |-> deleted_entry(del[i], base_map[del[i]], include, max_bytes)]

\* ---- the fallback through the git command line

\* The environment of one call: what fails outside the program.
Env(open_fails, ensure_fails, merge_base_fails, cli_fails) ==
  [ open_fails |-> open_fails, ensure_fails |-> ensure_fails,
    merge_base_fails |-> merge_base_fails, cli_fails |-> cli_fails ]
EnvOk == Env(FALSE, FALSE, FALSE, FALSE)

\* A line of `git diff --name-status`: <status> TAB <path> [TAB <path2>].
NameStatusLine(status, path, path2) ==
  [status |-> status, path |-> path, path2 |-> path2]

\* run_git(["diff", "--name-status", base, head]).  The fallback runs only
\* when the tree comparison found nothing, which git reports as a change only
\* where the mode of a path differs; a path of one side only is an A or a D
\* line, a path whose blob differs an M line.
name_status(env, base, head) ==
  IF env.cli_fails THEN None
  ELSE LET changed(p) ==
             \/ base.blobs[p] # head.blobs[p]
             \/ (p \in base.exec) # (p \in head.exec)
           s == in_order({ p \in TreePaths : changed(p) })
       IN Some([i \in 1..Len(s) |->
            NameStatusLine(IF base.blobs[s[i]] = Absent THEN "A"
                           ELSE IF head.blobs[s[i]] = Absent THEN "D"
                           ELSE "M", s[i], "")])

\* run_git(["show", "<commit>:<path>"]): the bytes of the blob as a string,
\* or a failure when the path has no blob in that commit.
git_show(env, tree, path) ==
  IF env.cli_fails \/ tree.blobs[path] = Absent THEN None
  ELSE LET data == get_blob_bytes(tree.blobs[path])
       IN IF data.some THEN Some(from_utf8_lossy(data.v)) ELSE None

\* The count of the fallback: only the changes of an operation that is an
\* Insert or a Delete are counted, the changes of a Replace are not.
fallback_counts(old_s, new_s) ==
  LET d == text_diff(old_s, new_s)
  IN IF d.adds > 0 /\ d.dels > 0 THEN [adds |-> 0, dels |-> 0] ELSE d

\* The entry the fallback builds from one line, or None for a line it skips.
fallback_entry(env, line, base, head, include, max_bytes) ==
  CASE line.status = "A" ->
         LET e == DiffEntry(line.path, None, "added", FALSE)
             buf == git_show(env, head, line.path)
         IN Some(IF include /\ buf.some
                 THEN LET sized == [e EXCEPT !.newSize = Some(Len(buf.v)),
                                             !.oldSize = Some(0)]
                      IN IF Len(buf.v) <= max_bytes
                         THEN [sized EXCEPT !.newContent = Some(buf.v),
                                            !.oldContent = Some(<<>>),
                                            !.additions = lines_count(buf.v),
                                            !.contentOmitted = Some(FALSE)]
                         ELSE [sized EXCEPT !.contentOmitted = Some(TRUE)]
                 ELSE e)
    [] line.status = "M" ->
         LET e == DiffEntry(line.path, None, "modified", FALSE)
             old_s == unwrap_or_default(git_show(env, base, line.path))
             new_s == unwrap_or_default(git_show(env, head, line.path))
             sized == [e EXCEPT !.oldSize = Some(Len(old_s)),
                                !.newSize = Some(Len(new_s))]
             d == fallback_counts(old_s, new_s)
         IN Some(IF include
                 THEN IF Len(old_s) + Len(new_s) <= max_bytes
                      THEN [sized EXCEPT !.additions = d.adds,
                                         !.deletions = d.dels,
                                         !.oldContent = Some(old_s),
                                         !.newContent = Some(new_s),
                                         !.contentOmitted = Some(FALSE)]
                      ELSE [sized EXCEPT !.contentOmitted = Some(TRUE)]
                 ELSE e)
    [] line.status = "D" ->
         LET e == DiffEntry(line.path, None, "deleted", FALSE)
             buf == git_show(env, base, line.path)
         IN Some(IF include /\ buf.some
                 THEN LET sized == [e EXCEPT !.oldSize = Some(Len(buf.v))]
                      IN IF Len(buf.v) <= max_bytes
                         THEN [sized EXCEPT !.oldContent = Some(buf.v),
                                            !.newContent = Some(<<>>),
                                            !.deletions = lines_count(buf.v),
                                            !.contentOmitted = Some(FALSE)]
                         ELSE [sized EXCEPT !.contentOmitted = Some(TRUE)]
                 ELSE e)
    [] line.status = "R100" ->
         LET e == DiffEntry(line.path2, Some(line.path), "renamed", FALSE)
             new_s == unwrap_or_default(git_show(env, head, line.path2))
             sized == [e EXCEPT !.newSize = Some(Len(new_s)),
                                !.oldSize = Some(Len(new_s))]
         IN Some(IF include
                 THEN IF Len(new_s) <= max_bytes
                      THEN [sized EXCEPT !.oldContent = Some(new_s),
                                         !.newContent = Some(new_s),
                                         !.contentOmitted = Some(FALSE)]
                      ELSE [sized EXCEPT !.contentOmitted = Some(TRUE)]
                 ELSE e)
    [] OTHER -> None

RECURSIVE fallback_from(_, _, _, _, _, _, _)
fallback_from(env, lines, i, base, head, include, max_bytes) ==
  IF i > Len(lines) THEN <<>>
  ELSE LET e == fallback_entry(env, lines[i], base, head, include, max_bytes)
       IN (IF e.some THEN << e.v >> ELSE <<>>)
            \o fallback_from(env, lines, i + 1, base, head, include, max_bytes)

\* ---- the repository, the resolver and the merge base

\* A revision as the caller writes it: a full hex object id, or a name.
Rev(hex, text) == [hex |-> hex, text |-> text]

RefNamespaces == << "refs/remotes/origin", "refs/heads", "refs/tags" >>

DfOk(entries) == [ok |-> TRUE, entries |-> entries, error |-> ""]
DfErr(error) == [ok |-> FALSE, entries |-> <<>>, error |-> error]

\* The texts that carry a prefix or name HEAD, taken apart; every other text
\* is a short name.  Short names hold no slash.
NameOf(text) ==
  CASE text = "HEAD" -> [form |-> "HEAD", ns |-> "", short |-> "HEAD"]
    [] text = "HEAD^" -> [form |-> "HEAD^", ns |-> "", short |-> "HEAD"]
    [] text = "origin/x" -> [form |-> "origin/", ns |-> "refs/remotes/origin", short |-> "x"]
    [] text = "refs/heads/x" -> [form |-> "refs/", ns |-> "refs/heads", short |-> "x"]
    [] text = "refs/tags/x" -> [form |-> "refs/", ns |-> "refs/tags", short |-> "x"]
    [] text = "refs/remotes/origin/x" ->
         [form |-> "refs/", ns |-> "refs/remotes/origin", short |-> "x"]
    [] OTHER -> [form |-> "short", ns |-> "", short |-> text]

\* HEAD of a clone with a branch checked out is a symbolic reference.
HEAD == << "", "HEAD" >>
is_symbolic(name) == name = HEAD

\* The reference of that full name, if the repository has it.
find_full_name(repo, name) ==
  IF name \in DOMAIN repo.refs THEN Some(name) ELSE None

\* The first of the full names that the repository has.
first_found(repo, names) ==
  LET found == SelectSeq(names, LAMBDA name : name \in DOMAIN repo.refs)
  IN IF found # <<>> THEN Some(found[1]) ELSE None

\* repo.find_reference(name): a full name is looked up as it is; a partial
\* name is tried under refs/tags, refs/heads and refs/remotes, in that order.
find_reference(repo, text) ==
  LET n == NameOf(text)
  IN CASE n.form = "refs/" -> find_full_name(repo, << n.ns, n.short >>)
       [] n.form = "HEAD" -> find_full_name(repo, HEAD)
       [] n.form = "HEAD^" -> None
       [] n.form = "origin/" -> find_full_name(repo, << n.ns, n.short >>)
       [] OTHER -> first_found(repo, << << "refs/tags", text >>, << "refs/heads", text >> >>)

\* r.target().try_id(): the id of a direct reference, nothing for a symbolic
\* one.
try_id(repo, r) ==
  IF r.some /\ ~is_symbolic(r.v) THEN Some(repo.refs[r.v]) ELSE None

\* repo.rev_parse_single(rev) and spec.object(): a reference by the lookup
\* rules of find_reference with a symbolic reference followed, or the first
\* parent of HEAD for HEAD^.
rev_parse_single(repo, text) ==
  LET r == find_reference(repo, text)
  IN IF NameOf(text).form = "HEAD^"
     THEN IF HEAD \in DOMAIN repo.refs /\ repo.parents[repo.refs[HEAD]] # {}
          THEN Some(CHOOSE c \in repo.parents[repo.refs[HEAD]] : TRUE)
          ELSE None
     ELSE IF r.some THEN Some(repo.refs[r.v]) ELSE None

\* The first result that is an id.
first_some(results) ==
  LET found == SelectSeq(results, LAMBDA r : r.some)
  IN IF found # <<>> THEN found[1] ELSE None

\* A full hex id is taken as it is, whether or not the repository has the
\* object.  Then the candidates rev, refs/remotes/origin/rev, refs/heads/rev
\* and refs/tags/rev are looked up as references in that order, and the
\* revision parser comes last.
oid_from_rev_parse(repo, rev) ==
  IF rev.hex THEN Some(rev.text)
  ELSE first_some(
         << try_id(repo, find_reference(repo, rev.text)) >>
         \o [i \in 1..Len(RefNamespaces) |->
               try_id(repo, find_full_name(repo, << RefNamespaces[i], rev.text >>))]
         \o << rev_parse_single(repo, rev.text) >>)

RECURSIVE ancestors(_, _)
ancestors(repo, c) ==
  { c } \cup UNION { ancestors(repo, p) : p \in repo.parents[c] }

\* `git merge-base a b`: a common ancestor that is no ancestor of another
\* common ancestor.  Without any common ancestor the result is a.  The
\* subprocess fails when git cannot run or an id names no commit.
merge_base_git(env, repo, a, b) ==
  IF env.merge_base_fails \/ a \notin repo.commits \/ b \notin repo.commits
  THEN None
  ELSE LET common == ancestors(repo, a) \cap ancestors(repo, b)
           best == { c \in common :
                       \A d \in common \ { c } : c \notin ancestors(repo, d) }
       IN IF common = {} THEN Some(a) ELSE Some(CHOOSE c \in best : TRUE)

\* merge_base(.., MergeBaseStrategy::Git)
merge_base(env, repo, a, b) == merge_base_git(env, repo, a, b)

\* collect_tree_blobs: path -> blob id; the mode of an entry is not kept.
collect_tree_blobs(tree) == tree.blobs

\* ---- diff_refs

GitDiffRefsOptions(ref1, ref2, originPathOverride, includeContents, maxBytes) ==
  [ ref1 |-> ref1, ref2 |-> ref2, originPathOverride |-> originPathOverride,
    includeContents |-> includeContents, maxBytes |-> maxBytes ]

DEFAULT_MAX_BYTES == 950 * 1024

include_of(opts) == IF opts.includeContents.some THEN opts.includeContents.v ELSE TRUE
max_bytes_of(opts) == IF opts.maxBytes.some THEN opts.maxBytes.v ELSE DEFAULT_MAX_BYTES

\* The commit whose tree is the base of the comparison, when both revisions
\* resolved: merge_base(..).unwrap_or(r1_oid).
base_oid_of(env, repo, r1_oid, r2_oid) ==
  LET mb == merge_base(env, repo, r1_oid, r2_oid)
  IN IF mb.some THEN mb.v ELSE r1_oid

\* The results diff_refs can return for a call: more than one only where the
\* pairing of renames depends on the hash order.
diff_refs(env, repo, opts) ==
  LET include == include_of(opts)
      max_bytes == max_bytes_of(opts)
      r1 == oid_from_rev_parse(repo, opts.ref1)
      r2 == oid_from_rev_parse(repo, opts.ref2)
  IN IF ~opts.originPathOverride /\ env.ensure_fails
       THEN { DfErr("ensure_repo") }
     ELSE IF env.open_fails THEN { DfErr("open") }
     ELSE IF ~r1.some \/ ~r2.some THEN { DfOk(<<>>) }
     ELSE LET base_oid == base_oid_of(env, repo, r1.v, r2.v)
          IN IF base_oid \notin repo.commits \/ r2.v \notin repo.commits
             THEN { DfErr("find_object") }
             ELSE LET base == repo.tree[base_oid]
                      head == repo.tree[r2.v]
                      base_map == collect_tree_blobs(base)
                      head_map == collect_tree_blobs(head)
                      finish(out) ==
                        IF out # <<>> THEN DfOk(out)
                        ELSE LET ns == name_status(env, base, head)
                                 fallback ==
                                   IF ns.some
                                   THEN fallback_from(env, ns.v, 1, base, head,
                                                      include, max_bytes)
                                   ELSE <<>>
                             IN IF fallback # <<>> THEN DfOk(fallback) ELSE DfOk(out)
                  IN { finish(tree_diff(base_map, head_map, pairs, include, max_bytes)) :
                         pairs \in renamed_pairs_choices(base_map, head_map) }

\* ---- the calls that are explored

Repo(commits, parents, tree, refs) ==
  [commits |-> commits, parents |-> parents, tree |-> tree, refs |-> refs]

MapOf(a, b, c) == [p \in TreePaths |-> CASE p = "a" -> a [] p = "b" -> b [] OTHER -> c]

\* The history of refs_merge_base_after_merge_is_branch_tip, with one more
\* branch that left the base commit and a tag on the base commit:
\*   c1 base; c2 feature (parent c1); c3 merge of c2 into c1; c4 main (parent
\*   c3); c5 other (parent c1).
DagRepo ==
  Repo({ "c1", "c2", "c3", "c4", "c5" },
       [ c1 |-> {}, c2 |-> { "c1" }, c3 |-> { "c1", "c2" }, c4 |-> { "c3" },
         c5 |-> { "c1" } ],
       [ c1 |-> Tree(MapOf("t1", Absent, Absent), {}),
         c2 |-> Tree(MapOf("t1", "t2", Absent), {}),
         c3 |-> Tree(MapOf("t1", "t2", Absent), {}),
         c4 |-> Tree(MapOf("t1", "t2", "bin"), {}),
         c5 |-> Tree(MapOf("t2", Absent, Absent), { "a" }) ],
       [ r \in { << "refs/heads", "main" >>, << "refs/heads", "feature" >>,
                 << "refs/remotes/origin", "other" >>, << "refs/tags", "v1" >> } |->
           CASE r[2] = "main" -> "c4"
             [] r[2] = "feature" -> "c2"
             [] r[2] = "other" -> "c5"
             [] OTHER -> "c1" ])

\* The revisions asked of DagRepo: its names, the id of the merge commit, a
\* name that no namespace has, and a well-formed id of no object.
DagRevs ==
  { Rev(FALSE, "main"), Rev(FALSE, "feature"), Rev(FALSE, "other"),
    Rev(FALSE, "v1"), Rev(TRUE, "c3"), Rev(FALSE, "no-such-branch"),
    Rev(TRUE, "ffff") }

\* One thing fails at a time, or git cannot run at all.
Envs ==
  { EnvOk, Env(TRUE, FALSE, FALSE, FALSE), Env(FALSE, TRUE, FALSE, FALSE),
    Env(FALSE, FALSE, TRUE, FALSE), Env(FALSE, FALSE, FALSE, TRUE),
    Env(FALSE, FALSE, TRUE, TRUE) }

IncludeOptions == { None, Some(FALSE) }
\* The default limit is far above every blob here; a limit of 2 is the size
\* of the smaller text blob.
MaxBytesOptions == { None, Some(2) }

Call(env, repo, opts) == [env |-> env, repo |-> repo, opts |-> opts]

DagCalls(envs) ==
  { Call(env, DagRepo, GitDiffRefsOptions(r1, r2, ov, inc, mx)) :
      env \in envs, r1 \in DagRevs, r2 \in DagRevs, ov \in BOOLEAN,
      inc \in { None }, mx \in { None } }

\* A repository of two commits, c1 and its child c2, with any two trees.  The
\* executable bits differ only where the blobs do not: elsewhere the tree
\* comparison is not empty and the modes are never looked at.  Only a blob
\* has an executable bit, a gitlink has none.
TwoCommitRepo(base_map, head_map, exec) ==
  Repo({ "c1", "c2" },
       [ c1 |-> {}, c2 |-> { "c1" } ],
       [ c1 |-> Tree(base_map, {}), c2 |-> Tree(head_map, exec) ],
       [ r \in { << "refs/heads", "main" >>, << "refs/tags", "v1" >> } |->
           IF r[2] = "main" THEN "c2" ELSE "c1" ])

AllMaps == [TreePaths -> Oids \cup { Absent }]

TreeCalls(env) ==
  { Call(env, TwoCommitRepo(bm, hm, {}),
         GitDiffRefsOptions(Rev(FALSE, "v1"), Rev(FALSE, "main"), TRUE, inc, mx)) :
      bm \in AllMaps, hm \in AllMaps, inc \in IncludeOptions, mx \in MaxBytesOptions }

ModeCalls(envs) ==
  { Call(env, TwoCommitRepo(c[1], c[1], c[2]),
         GitDiffRefsOptions(Rev(FALSE, "v1"), Rev(FALSE, "main"), TRUE, inc, mx)) :
      env \in envs,
      c \in { x \in AllMaps \X (SUBSET TreePaths) :
                x[2] # {} /\ \A p \in x[2] : x[1][p] \in DOMAIN BlobData },
      inc \in IncludeOptions, mx \in MaxBytesOptions }

VARIABLES
  dfPhase,   \* "idle" | "returned"
  dfCall,    \* the call: environment, repository, options
  dfOut      \* what diff_refs returned

dfVars == <<dfPhase, dfCall, dfOut>>

NoCallYet ==
  Call(EnvOk, Repo({}, <<>>, <<>>, <<>>),
       GitDiffRefsOptions(Rev(FALSE, ""), Rev(FALSE, ""), TRUE, None, None))

\* One call of diff_refs, from its arguments to its result.
DfDiffRefs(family) ==
  /\ dfPhase = "idle"
  /\ \E c \in family :
       \E r \in diff_refs(c.env, c.repo, c.opts) :
         /\ dfCall' = c
         /\ dfOut' = r
  /\ dfPhase' = "returned"

\* The caller takes the result; the next call starts from scratch.
DfReturn ==
  /\ dfPhase = "returned"
  /\ dfPhase' = "idle"
  /\ dfCall' = NoCallYet
  /\ dfOut' = DfOk(<<>>)

\* ======================================================================
\* Merge base by breadth-first search  (time/src/merge_base/bfs.rs)
\*
\* A commit graph: the commits are 1..n and every commit lists its parents,
\* which are older commits, in the order the commit object holds them.
\* ======================================================================

MaxCommits == 4
MaxParents == 2

\* The parent lists a commit k can have: at most MaxParents older commits,
\* no commit twice.
ParentLists(k) ==
  { ps \in UNION { [1..m -> 1..(k - 1)] : m \in 0..MaxParents } :
      \A i, j \in 1..Len(ps) : i # j => ps[i] # ps[j] }

\* The graphs of n commits: graph[c] is the parent list of c.
RECURSIVE Dags(_)
Dags(n) ==
  IF n = 0 THEN { <<>> }
  ELSE { Append(g, ps) : g \in Dags(n - 1), ps \in ParentLists(n) }

\* The state of the search: both queues, both distance maps (a function on
\* the commits seen so far) and the best intersection.
Search(queue_a, queue_b, da, db, bst) ==
  [qa |-> queue_a, qb |-> queue_b, dist_a |-> da, dist_b |-> db, best |-> bst]

relax_last_wins(bst, pid, cost) == Some([id |-> pid, cost |-> cost])

\* match best { None => .., Some((_, c)) if cost < *c => .., _ => {} }
relax(bst, pid, cost) ==
  IF ~bst.some THEN Some([id |-> pid, cost |-> cost])
  ELSE IF cost < bst.v.cost THEN Some([id |-> pid, cost |-> cost])
  ELSE bst

\* for p in commit.parent_ids() { .. }: the parents from the i-th on.
RECURSIVE expand_parents(_, _, _, _, _, _, _)
expand_parents(parents, i, d, this_q, this_d, other_d, bst) ==
  IF i > Len(parents) THEN [q |-> this_q, d |-> this_d, best |-> bst]
  ELSE LET pid == parents[i]
       IN IF pid \in DOMAIN this_d
          THEN expand_parents(parents, i + 1, d, this_q, this_d, other_d, bst)
          ELSE expand_parents(parents, i + 1, d,
                 Append(this_q, pid),
                 this_d @@ (pid :> d + 1),
                 other_d,
                 IF pid \in DOMAIN other_d
                 THEN relax(bst, pid, (d + 1) + other_d[pid])
                 ELSE bst)

\* The closure expand: one step of one frontier.  The result is the state
\* after the step and whether the step made progress.
expand(from_a, graph, st) ==
  LET this_q == IF from_a THEN st.qa ELSE st.qb
      this_d == IF from_a THEN st.dist_a ELSE st.dist_b
      other_d == IF from_a THEN st.dist_b ELSE st.dist_a
      with(q, dm, bst) ==
        IF from_a THEN Search(q, st.qb, dm, st.dist_b, bst)
        ELSE Search(st.qa, q, st.dist_a, dm, bst)
  IN IF this_q = <<>> THEN [st |-> st, progressed |-> FALSE]
     ELSE LET cur == Head(this_q)
              d == this_d[cur]
          IN IF st.best.some /\ d > st.best.v.cost
             THEN [st |-> with(Tail(this_q), this_d, st.best), progressed |-> FALSE]
             ELSE LET r == expand_parents(graph[cur], 1, d, Tail(this_q), this_d,
                                          other_d, st.best)
                  IN [st |-> with(r.q, r.d, r.best), progressed |-> TRUE]

\* One turn of the loop: the frontier with the shorter queue first, the other
\* one only when the first made no progress.
loop_turn(graph, st) ==
  LET next_from_a == Len(st.qa) <= Len(st.qb)
      first == expand(next_from_a, graph, st)
  IN IF first.progressed THEN first
     ELSE expand(~next_from_a, graph, first.st)

VARIABLES
  mbPhase,    \* "idle" | "searching" | "returned"
  mbGraph,    \* the commit graph of the repository
  mbA,        \* the argument a
  mbB,        \* the argument b
  mbSearch,   \* qa, qb, dist_a, dist_b and best
  mbOut       \* the returned Option<ObjectId>

mbVars == <<mbPhase, mbGraph, mbA, mbB, mbSearch, mbOut>>

NoSearch == Search(<<>>, <<>>, <<>>, <<>>, None)

\* merge_base_bfs(repo, a, b) up to the loop.
MbCall ==
  /\ mbPhase = "idle"
  /\ \E g \in Dags(MaxCommits), a, b \in 1..MaxCommits :
       /\ mbGraph' = g
       /\ mbA' = a
       /\ mbB' = b
       /\ IF a = b
          THEN /\ mbPhase' = "returned"
               /\ mbOut' = Some(a)
               /\ mbSearch' = NoSearch
          ELSE /\ mbPhase' = "searching"
               /\ mbOut' = None
               /\ mbSearch' = Search(<< a >>, << b >>, a :> 0, b :> 0, None)

\* One turn of the loop; a turn without progress ends the search.
MbLoop ==
  /\ mbPhase = "searching"
  /\ \E r \in { loop_turn(mbGraph, mbSearch) } :
       /\ mbSearch' = r.st
       /\ IF r.progressed
          THEN UNCHANGED <<mbPhase, mbOut>>
          ELSE /\ mbPhase' = "returned"
               /\ mbOut' = IF r.st.best.some THEN Some(r.st.best.v.id) ELSE Some(mbA)
  /\ UNCHANGED <<mbGraph, mbA, mbB>>

\* The caller has the result.
MbReturn ==
  /\ mbPhase = "returned"
  /\ mbPhase' = "idle"
  /\ mbGraph' = <<>>
  /\ mbA' = 0
  /\ mbB' = 0
  /\ mbSearch' = NoSearch
  /\ mbOut' = None

\* ======================================================================
\* Rev resolver  (core/src/diff/refs.rs, oid_from_rev_parse)
\*
\* The repositories asked: three commits in a line, HEAD on one of them, and
\* the name x in any of the namespaces refs/remotes/origin, refs/heads and
\* refs/tags, each on a commit of its own choice.
\* ======================================================================

ChainCommits == { "c1", "c2", "c3" }
ChainParents == [ c1 |-> {}, c2 |-> { "c1" }, c3 |-> { "c2" } ]
NamesOfX == { << RefNamespaces[i], "x" >> : i \in 1..Len(RefNamespaces) }

ResolverRepos(commits) ==
  { Repo(commits, ChainParents, [c \in commits |-> Tree(MapOf(Absent, Absent, Absent), {})],
         [name \in present \cup { HEAD } |-> target[name]]) :
      present \in SUBSET NamesOfX, target \in [NamesOfX \cup { HEAD } -> commits] }

\* The revisions asked: the name in every spelling, HEAD and its parent, a
\* name that no namespace has, the id of a commit and a well-formed id of no
\* object.
ResolverRevs ==
  { Rev(FALSE, "x"), Rev(FALSE, "origin/x"), Rev(FALSE, "refs/heads/x"),
    Rev(FALSE, "refs/tags/x"), Rev(FALSE, "refs/remotes/origin/x"),
    Rev(FALSE, "HEAD"), Rev(FALSE, "HEAD^"), Rev(FALSE, "no-such-name"),
    Rev(TRUE, "c2"), Rev(TRUE, "ffff") }

VARIABLES
  rsPhase,   \* "idle" | "returned"
  rsRepo,    \* the repository asked
  rsRev,     \* the revision asked
  rsOut      \* Ok(id) as Some(id), Err as None

rsVars == <<rsPhase, rsRepo, rsRev, rsOut>>

NoRepo == Repo({}, <<>>, <<>>, <<>>)

\* oid_from_rev_parse(repo, rev)
RsResolve ==
  /\ rsPhase = "idle"
  /\ \E repo \in ResolverRepos(ChainCommits), rev \in ResolverRevs :
       /\ rsRepo' = repo
       /\ rsRev' = rev
       /\ rsOut' = oid_from_rev_parse(repo, rev)
  /\ rsPhase' = "returned"

\* The caller has the result.
RsReturn ==
  /\ rsPhase = "returned"
  /\ rsPhase' = "idle"
  /\ rsRepo' = NoRepo
  /\ rsRev' = Rev(FALSE, "")
  /\ rsOut' = None

\* ======================================================================
\* Global proxy: preflight, HTML rewriting and the control-port policy
\* (specification sections 4.A, 4.B and 4.C)
\*
\* A header that is a list (Vary, Content-Security-Policy) is the sequence of
\* its items; a body is the sequence of its tags and texts.  The upstream
\* responses carry no Access-Control-Allow-Origin of their own and none of
\* the scripts the proxy injects.
\* ======================================================================

CONTROL_PORT == 39378
MAX_HTML_REWRITE_BYTES == 32 * 1024 * 1024

AllowedOrigins ==
  { "https://cmux.sh", "https://www.cmux.sh", "https://cmux.dev", "https://www.cmux.dev",
    "http://localhost:5173", "https://cmux.local", "http://cmux.local" }

ALLOW_METHODS == "GET,HEAD,POST,PUT,PATCH,DELETE,OPTIONS"
MAX_AGE == "86400"
DEFAULT_ALLOW_ORIGIN == "https://cmux.sh"

Directive(name, value) == [name |-> name, value |-> value]
FRAME_ANCESTORS ==
  Directive("frame-ancestors",
            "'self' https://cmux.local http://cmux.local https://www.cmux.sh https://cmux.sh https://www.cmux.dev https://cmux.dev http://localhost:5173")

LOCATION_SHIM == "<script>window.__cmuxLocation</script>"
SW_REGISTRATION == "<script>navigator.serviceWorker.register('/proxy-sw.js')</script>"

\* ---- the requests and the upstream responses that are explored

PolicyHosts ==
  { [apex |-> FALSE, label |-> l] :
      l \in { << Word("port"), Num(<<3, 9, 3, 7, 8>>), Word("test") >>,
              << Word("port"), Num(<<8, 0, 8, 0>>), Word("test") >>,
              << Word("cmux"), Word("test"), Num(<<8, 0, 8, 0>>) >>,
              << Word("cmux"), Word("test"), Num(<<3, 9, 3, 7, 8>>) >>,
              << Word("test"), Num(<<8, 0, 8, 0>>), Word("test") >>,
              << Word("cmux"), Word("test") >> } }

Origins ==
  { None, Some("https://cmux.dev"), Some("http://localhost:5173"),
    Some("https://evil.example") }

PolicyRequests(hosts) ==
  [ host : hosts, path : { "/" }, method : Methods, proxied : { FALSE },
    origin : Origins, requestHeaders : { None, Some("content-type") },
    reachable : BOOLEAN ]

WithHead == << "<html>", "<head>", "<title>Demo</title>", "</head>",
               "<body>", "Hello", "</body>", "</html>" >>
WithoutHead == << "<p>", "Hello", "</p>" >>

UpstreamResponses(types) ==
  [ status : { 200 },
    contentType : types,
    contentEncoding : { "", "gzip" },
    bytes : { 63, MAX_HTML_REWRITE_BYTES + 1 },
    body : { WithHead, WithoutHead },
    vary : { <<>>, << "Origin" >>, << "Accept-Encoding", "ORIGIN" >>,
             << "origin", "Accept-Encoding", "Origin" >> },
    csp : { <<>>, << Directive("frame-ancestors", "'none'") >>,
            << Directive("default-src", "'self'"),
               Directive("frame-ancestors", "'none'") >> },
    xFrameOptions : { None, Some("DENY") } ]

\* ---- section 4.B: the rewriter

\* Content-Type begins with text/html.
is_html(contentType) ==
  contentType \in { "text/html", "text/html; charset=utf-8" }

\* The response is rewritten: HTML, not encoded, within the ceiling.
is_rewritten(up) ==
  /\ is_html(up.contentType)
  /\ up.contentEncoding = ""
  /\ up.bytes <= MAX_HTML_REWRITE_BYTES

scripts_for_every_route(kind) == << LOCATION_SHIM, SW_REGISTRATION >>

\* The script blocks of a route: the location shim, and the service-worker
\* registration unless the route is a CmuxRoute.
scripts_for(kind) ==
  IF kind = "CmuxRoute" THEN << LOCATION_SHIM >>
  ELSE << LOCATION_SHIM, SW_REGISTRATION >>

\* The scripts go into <head>, or before the body when there is no <head>.
inject(body, scripts) ==
  IF \E i \in 1..Len(body) : body[i] = "<head>"
  THEN LET h == CHOOSE i \in 1..Len(body) :
                  body[i] = "<head>" /\ \A j \in 1..(i - 1) : body[j] # "<head>"
       IN SubSeq(body, 1, h) \o scripts \o SubSeq(body, h + 1, Len(body))
  ELSE scripts \o body

rewrite_html(kind, up) ==
  IF is_rewritten(up) THEN inject(up.body, scripts_for(kind)) ELSE up.body

\* ---- section 4.C: the policy of the control port

lower(token) ==
  CASE token \in { "Origin", "ORIGIN", "origin" } -> "origin"
    [] token = "Accept-Encoding" -> "accept-encoding"
    [] OTHER -> token

\* The items of the list without the later repetitions of an item, letter
\* case ignored.
RECURSIVE dedup_tokens(_, _, _)
dedup_tokens(items, i, acc) ==
  IF i > Len(items) THEN acc
  ELSE dedup_tokens(items, i + 1,
         IF \E j \in 1..Len(acc) : lower(acc[j]) = lower(items[i])
         THEN acc ELSE Append(acc, items[i]))

vary_with_origin_appended(vary) == Append(vary, "Origin")

\* Append Origin to Vary, case-insensitive and deduplicated.
vary_with_origin(vary) == dedup_tokens(Append(vary, "Origin"), 1, <<>>)

\* Every frame-ancestors directive gives way to the fixed one.
replace_frame_ancestors(csp) ==
  [i \in 1..Len(csp) |->
     IF csp[i].name = "frame-ancestors" THEN FRAME_ANCESTORS ELSE csp[i]]

cors_mode(v) ==
  IF v.kind = "PortRoute" /\ v.port = CONTROL_PORT THEN "Control" ELSE "Normal"

origin_allowed(origin) == origin.some /\ origin.v \in AllowedOrigins

FullResponse(status, contentType, body) ==
  [ status |-> status, contentType |-> contentType, body |-> body,
    allowOrigin |-> None, allowMethods |-> None, allowHeaders |-> None,
    maxAge |-> None, vary |-> <<>>, csp |-> <<>>, xFrameOptions |-> None ]

\* The policy, applied to a response of a route in Control mode when the
\* Origin of the request is in the allowed set.
apply_policy(v, req, resp) ==
  IF cors_mode(v) = "Control" /\ origin_allowed(req.origin)
  THEN [resp EXCEPT !.allowOrigin = req.origin,
                    !.vary = vary_with_origin(resp.vary),
                    !.csp = replace_frame_ancestors(resp.csp),
                    !.xFrameOptions = None]
  ELSE resp

\* The answer to a preflight.
preflight_response(req) ==
  [FullResponse(204, "", <<>>) EXCEPT
     !.allowOrigin = IF origin_allowed(req.origin) THEN req.origin
                     ELSE Some(DEFAULT_ALLOW_ORIGIN),
     !.allowMethods = Some(ALLOW_METHODS),
     !.allowHeaders = req.requestHeaders,
     !.maxAge = Some(MAX_AGE)]

\* The response the proxy gives without the upstream.
local_response(v, req, answer) ==
  apply_policy(v, req,
    IF answer.status = 204 THEN preflight_response(req)
    ELSE FullResponse(answer.status, "text/plain", << answer.body >>))

\* The response the proxy makes of an upstream response.
proxied_response(v, req, up) ==
  apply_policy(v, req,
    [FullResponse(up.status, up.contentType, rewrite_html(v.kind, up)) EXCEPT
       !.vary = up.vary, !.csp = up.csp, !.xFrameOptions = up.xFrameOptions])

VARIABLES
  grPhase,     \* "idle" | "received" | "forwarding" | "done"
  grReq,       \* the request, with whether its upstream can be reached
  grVerdict,   \* its routing verdict
  grUp,        \* the upstream response, if one came
  grResp,      \* the response given to the client
  grUpstream   \* number of upstream connections opened for the request

grVars == <<grPhase, grReq, grVerdict, grUp, grResp, grUpstream>>

NoPolicyRequest ==
  [ host |-> [apex |-> TRUE, label |-> <<>>], path |-> "", method |-> "",
    proxied |-> FALSE, origin |-> None, requestHeaders |-> None,
    reachable |-> FALSE ]
NoFullResponse == FullResponse(0, "", <<>>)

\* A request arrives.
GrReceive ==
  /\ grPhase = "idle"
  /\ \E r \in PolicyRequests(PolicyHosts) : grReq' = r
  /\ grPhase' = "received"
  /\ UNCHANGED <<grVerdict, grUp, grResp, grUpstream>>

\* The request is routed: answered at once, or forwarded, which opens the
\* upstream connection.
GrRoute ==
  /\ grPhase = "received"
  /\ \E v \in { ParseVerdict(grReq.host, grReq.path, grReq.method, grReq.proxied) } :
       /\ grVerdict' = v
       /\ IF AnswerOf(v, grReq.method) # NoResponse
          THEN /\ grResp' = local_response(v, grReq, AnswerOf(v, grReq.method))
               /\ grPhase' = "done"
               /\ UNCHANGED grUpstream
          ELSE /\ grUpstream' = grUpstream + 1
               /\ grPhase' = "forwarding"
               /\ UNCHANGED grResp
  /\ UNCHANGED <<grReq, grUp>>

\* The upstream dial fails (502) or the upstream answers.
GrUpstreamReply ==
  /\ grPhase = "forwarding"
  /\ IF grReq.reachable
     THEN \E up \in UpstreamResponses({ "text/html", "text/html; charset=utf-8",
                                        "application/json" }) :
            /\ grUp' = Some(up)
            /\ grResp' = proxied_response(grVerdict, grReq, up)
     ELSE /\ grUp' = None
          /\ grResp' = local_response(grVerdict, grReq, Response(502, "upstream error"))
  /\ grPhase' = "done"
  /\ UNCHANGED <<grReq, grVerdict, grUpstream>>

\* The connection is ready for the next request.
GrFinish ==
  /\ grPhase = "done"
  /\ grPhase' = "idle"
  /\ grReq' = NoPolicyRequest
  /\ grVerdict' = Verdict("", 0, "")
  /\ grUp' = None
  /\ grResp' = NoFullResponse
  /\ grUpstream' = 0

\* ======================================================================
\* Diff engine, the copy of the time crate  (time/src/diff/refs.rs)
\*
\* The older copy of diff_refs: no pairing of renames and no fallback, one
\* loop over the head map for additions and modifications and one over the
\* base map for deletions.  A tree entry that is no blob makes the call fail.
\* ======================================================================

\* The line counts of the modification branch: the changes are counted by the
\* tag of their operation, Insert or Delete; those of a Replace are not.
time_counts(old_str, new_str) == fallback_counts(old_str, new_str)

\* The entry of a path of both trees whose blob ids differ, or None where
\* the loop goes on without pushing it.
time_modified_entry(path, old_id, new_id, include, max_bytes) ==
  LET old_data == BlobData[old_id]
      new_data == BlobData[new_id]
      bin == is_binary(old_data) \/ is_binary(new_data)
      e0 == [DiffEntry(path, None, "modified", bin) EXCEPT !.contentOmitted = Some(FALSE)]
      e == IF include /\ ~bin
           THEN LET old_str == from_utf8_lossy(old_data)
                    new_str == from_utf8_lossy(new_data)
                    sized == [e0 EXCEPT !.oldSize = Some(Len(old_str)),
                                        !.newSize = Some(Len(new_str))]
                IN IF Len(old_str) + Len(new_str) <= max_bytes
                   THEN LET diff == time_counts(old_str, new_str)
                        IN [sized EXCEPT !.additions = diff.adds,
                                         !.deletions = diff.dels,
                                         !.oldContent = Some(old_str),
                                         !.newContent = Some(new_str)]
                   ELSE [sized EXCEPT !.contentOmitted = Some(TRUE)]
           ELSE e0
  IN IF include /\ e.status = "modified" /\ ~e.isBinary
        /\ e.additions = 0 /\ e.deletions = 0
     THEN None
     ELSE Some(e)

\* The entries of the loop over head_map from path i on.
RECURSIVE time_add_mod(_, _, _, _, _)
time_add_mod(base_map, head_map, i, include, max_bytes) ==
  IF i > Len(PathOrder) THEN <<>>
  ELSE LET path == PathOrder[i]
           new_id == head_map[path]
           old_id == base_map[path]
           here == IF new_id = Absent \/ old_id = new_id THEN <<>>
                   ELSE IF old_id = Absent
                     THEN << added_entry(path, new_id, include, max_bytes) >>
                   ELSE LET e == time_modified_entry(path, old_id, new_id,
                                                     include, max_bytes)
                        IN IF e.some THEN << e.v >> ELSE <<>>
       IN here \o time_add_mod(base_map, head_map, i + 1, include, max_bytes)

time_diff_refs(env, repo, opts) ==
  LET include == include_of(opts)
      max_bytes == max_bytes_of(opts)
      r1 == oid_from_rev_parse(repo, opts.ref1)
      r2 == oid_from_rev_parse(repo, opts.ref2)
  IN IF ~opts.originPathOverride /\ env.ensure_fails THEN DfErr("ensure_repo")
     ELSE IF env.open_fails THEN DfErr("open")
     ELSE IF ~r1.some \/ ~r2.some THEN DfOk(<<>>)
     ELSE LET base_oid == base_oid_of(env, repo, r1.v, r2.v)
          IN IF base_oid \notin repo.commits \/ r2.v \notin repo.commits
             THEN DfErr("find_object")
             ELSE LET base_map == collect_tree_blobs(repo.tree[base_oid])
                      head_map == collect_tree_blobs(repo.tree[r2.v])
                      read == { head_map[p] : p \in { q \in TreePaths :
                                  head_map[q] # Absent /\ head_map[q] # base_map[q] } }
                              \cup { base_map[p] : p \in { q \in TreePaths :
                                  base_map[q] # Absent /\ head_map[q] # base_map[q] } }
                      del == in_order(base_only_of(base_map, head_map))
                  IN IF \E id \in read : id \notin DOMAIN BlobData
                     THEN DfErr("try_into_blob")
                     ELSE DfOk(time_add_mod(base_map, head_map, 1, include, max_bytes)
                               \o [i \in 1..Len(del) |->
                                     deleted_entry(del[i], base_map[del[i]],
                                                   include, max_bytes)])

\* The blob ids of the trees that are explored: three texts and a binary.
TimeOids == { "t1", "t2", "t3", "bin" }

TimeCalls(env) ==
  { Call(env, TwoCommitRepo(bm, hm, {}),
         GitDiffRefsOptions(Rev(FALSE, "v1"), Rev(FALSE, "main"), TRUE, inc, mx)) :
      bm \in [TreePaths -> TimeOids \cup { Absent }],
      hm \in [TreePaths -> TimeOids \cup { Absent }],
      inc \in IncludeOptions, mx \in MaxBytesOptions }

VARIABLES
  tdPhase,   \* "idle" | "returned"
  tdCall,    \* the call: environment, repository, options
  tdOut      \* what diff_refs returned

tdVars == <<tdPhase, tdCall, tdOut>>

\* One call of diff_refs, from its arguments to its result.
TdDiffRefs ==
  /\ tdPhase = "idle"
  /\ \E c \in TimeCalls(EnvOk) :
       /\ tdCall' = c
       /\ tdOut' = time_diff_refs(c.env, c.repo, c.opts)
  /\ tdPhase' = "returned"

\* The caller takes the result; the next call starts from scratch.
TdReturn ==
  /\ tdPhase = "returned"
  /\ tdPhase' = "idle"
  /\ tdCall' = NoCallYet
  /\ tdOut' = DfOk(<<>>)

\* ======================================================================
\* noVNC proxy: static files  (crates/cmux-novnc-proxy/src/lib.rs)
\*
\* A request path is a sequence of characters.  A file system path is the
\* sequence of its components, each a sequence of characters; the file name
\* index.html is one component that is written as one character here.
\* ======================================================================

MaxPieces == 4

\* The pieces request paths are built from: separators, dots, a letter, the
\* escapes of '.' and '/', a lone '%' and a '+'.
Pieces ==
  { << "/" >>, << "." >>, << "a" >>, << "%", "2", "e" >>, << "%", "2", "F" >>,
    << "%" >>, << "+" >> }

RECURSIVE Flatten(_)
Flatten(ps) == IF ps = <<>> THEN <<>> ELSE Head(ps) \o Flatten(Tail(ps))

UriPaths(max) ==
  { Flatten(ps) : ps \in UNION { [1..n -> Pieces] : n \in 0..max } }

hex_value(byte) ==
  CASE byte \in { "0", "1", "2", "3", "4", "5", "6", "7", "8", "9" } ->
         Some(CHOOSE d \in 0..9 :
                << "0", "1", "2", "3", "4", "5", "6", "7", "8", "9" >>[d + 1] = byte)
    [] byte \in { "a", "b", "c", "d", "e", "f" } ->
         Some(10 + CHOOSE d \in 0..5 : << "a", "b", "c", "d", "e", "f" >>[d + 1] = byte)
    [] byte \in { "A", "B", "C", "D", "E", "F" } ->
         Some(10 + CHOOSE d \in 0..5 : << "A", "B", "C", "D", "E", "F" >>[d + 1] = byte)
    [] OTHER -> None

\* `value as char`: the character of a code; the codes that are no character
\* of the request paths above are written "?".
char_of(value) ==
  CASE value = 46 -> "." [] value = 47 -> "/" [] value = 37 -> "%"
    [] value = 43 -> "+" [] value = 97 -> "a" [] OTHER -> "?"

RECURSIVE percent_decode_from(_, _, _)
percent_decode_from(bytes, i, output) ==
  IF i > Len(bytes) THEN Some(output)
  ELSE IF bytes[i] = "%"
    THEN IF i + 2 > Len(bytes) THEN None
         ELSE LET hi == hex_value(bytes[i + 1])
                  lo == hex_value(bytes[i + 2])
              IN IF ~hi.some \/ ~lo.some THEN None
                 ELSE percent_decode_from(bytes, i + 3,
                        Append(output, char_of(hi.v * 16 + lo.v)))
  ELSE IF bytes[i] = "+" THEN percent_decode_from(bytes, i + 1, Append(output, " "))
  ELSE percent_decode_from(bytes, i + 1, Append(output, bytes[i]))

percent_decode(input) == percent_decode_from(input, 1, <<>>)

\* str::split('/'): the pieces between the separators, empty ones included.
RECURSIVE split_slash(_, _, _)
split_slash(s, i, cur) ==
  IF i > Len(s) THEN << cur >>
  ELSE IF s[i] = "/" THEN << cur >> \o split_slash(s, i + 1, <<>>)
  ELSE split_slash(s, i + 1, Append(cur, s[i]))

DOTDOT == << ".", "." >>
INDEX_HTML == << "index.html" >>

\* PathBuf::push: an absolute component replaces the path.
push(path, segment) ==
  IF segment # <<>> /\ segment[1] = "/" THEN << segment >> ELSE Append(path, segment)

RECURSIVE push_all(_, _, _)
push_all(path, components, i) ==
  IF i > Len(components) THEN path
  ELSE push_all(push(path, components[i]), components, i + 1)

\* Path::join: a relative path is appended to the root.
join(root, path) == push_all(root, path, 1)

\* A resolve_path that looks for ".." in the request path as it was sent.
resolve_path_checks_undecoded(web_root, uri_path) ==
  LET decoded == percent_decode(uri_path)
  IN IF ~decoded.some THEN None
     ELSE LET segments == split_slash(decoded.v, 1, <<>>)
              components == SelectSeq(segments, LAMBDA s : s # <<>> /\ s # << "." >>)
              path == push_all(<<>>, components, 1)
          IN IF \E k \in 1..Len(split_slash(uri_path, 1, <<>>)) :
                  split_slash(uri_path, 1, <<>>)[k] = DOTDOT
             THEN None
             ELSE Some(join(web_root,
                    IF (uri_path # <<>> /\ uri_path[Len(uri_path)] = "/") \/ path = <<>>
                    THEN push(path, INDEX_HTML) ELSE path))

resolve_path(web_root, uri_path) ==
  LET decoded == percent_decode(uri_path)
  IN IF ~decoded.some THEN None
     ELSE LET segments == split_slash(decoded.v, 1, <<>>)
              components == SelectSeq(segments, LAMBDA s : s # <<>> /\ s # << "." >>)
              path == push_all(<<>>, components, 1)
          IN IF \E k \in 1..Len(segments) : segments[k] = DOTDOT
             THEN None
             ELSE Some(join(web_root,
                    IF (uri_path # <<>> /\ uri_path[Len(uri_path)] = "/") \/ path = <<>>
                    THEN push(path, INDEX_HTML) ELSE path))

WEB_ROOT == << << "s", "t", "a", "t", "i", "c" >> >>

\* What serve_static did: the response status and the file it read, if any.
Static(status, read) == [status |-> status, read |-> read]

\* serve_static for the outcomes of the file system: what metadata() says of
\* the resolved path and whether read() succeeds.
serve_static(method, uri_path, metadata, read_ok) ==
  IF method \notin { "GET", "HEAD" } THEN Static(405, None)
  ELSE LET resolved == resolve_path(WEB_ROOT, uri_path)
       IN IF ~resolved.some THEN Static(404, None)
          ELSE IF metadata = "missing" THEN Static(404, None)
          ELSE LET path == IF metadata = "dir"
                           THEN join(resolved.v, << INDEX_HTML >>)
                           ELSE resolved.v
               IN IF read_ok THEN Static(200, Some(path)) ELSE Static(500, Some(path))

VARIABLES
  nvPhase,     \* "idle" | "served"
  nvMethod,    \* the method of the request
  nvPath,      \* the path of the request
  nvResolved,  \* what resolve_path returned for it
  nvStatic     \* what serve_static did

nvVars == <<nvPhase, nvMethod, nvPath, nvResolved, nvStatic>>

\* One request for a static file, from the request to the response.
NvServeStatic ==
  /\ nvPhase = "idle"
  /\ \E method \in { "GET", "HEAD", "POST" }, uri_path \in UriPaths(MaxPieces),
        metadata \in { "file", "dir", "missing" }, read_ok \in BOOLEAN :
       /\ nvMethod' = method
       /\ nvPath' = uri_path
       /\ nvResolved' = resolve_path(WEB_ROOT, uri_path)
       /\ nvStatic' = serve_static(method, uri_path, metadata, read_ok)
  /\ nvPhase' = "served"

\* The response is written; the next request starts from scratch.
NvDone ==
  /\ nvPhase = "served"
  /\ nvPhase' = "idle"
  /\ nvMethod' = "GET"
  /\ nvPath' = <<>>
  /\ nvResolved' = None
  /\ nvStatic' = Static(0, None)

\* ======================================================================
\* Repository cache: the directory of a URL  (time/src/repo/cache.rs)
\*
\* ensure_repo for a few calls, fewer than the cache holds, so that nothing
\* is evicted: which clone the directory of a URL holds.
\* ======================================================================

MaxEnsures == 2

\* Repository URLs on the given hosts, split on '/' as above.
HostUrls(hosts) ==
  { << h, o, r >> : h \in hosts, o \in { "o", "p" }, r \in { "r1", "r1.git", "r2" } }

CacheHosts == { "github.com", "gitlab.com", "example.org" }

NoUrl == <<>>

VARIABLES
  slDirs,     \* slug -> the URL the directory <root>/<slug> was cloned from
  slUrl,      \* the URL of the last call
  slPath,     \* the path the last call returned (its slug)
  slEnsured   \* history: the URLs of the calls so far, in order

slVars == <<slDirs, slUrl, slPath, slEnsured>>

\* ensure_repo(url): the directory of the slug is cloned from the URL when it
\* does not exist, and fetched from its own origin when it does.
SlEnsureRepo ==
  /\ Len(slEnsured) < MaxEnsures
  /\ Len(slEnsured) < MAX_CACHE_REPOS
  /\ \E url \in HostUrls(CacheHosts) :
       LET path == slug_from_url(url)
       IN /\ slDirs' = IF slDirs[path] = NoUrl
                       THEN [slDirs EXCEPT ![path] = url]
                       ELSE slDirs
          /\ slUrl' = url
          /\ slPath' = path
          /\ slEnsured' = Append(slEnsured, url)

\* The cache root is removed (CMUX_RUST_GIT_CACHE points to a fresh
\* directory): the calls start over.
SlFreshRoot ==
  /\ slEnsured # <<>>
  /\ slDirs' = [s \in DOMAIN slDirs |-> NoUrl]
  /\ slUrl' = NoUrl
  /\ slPath' = ""
  /\ slEnsured' = <<>>

\* ======================================================================
\* vnc-websocket-proxy: one connection  (crates/vnc-websocket-proxy/src/main.rs)
\*
\* handle_connection accepts the WebSocket, connects to the VNC server,
\* spawns one task per direction and waits in select! for the first of the
\* two join handles.  A task owns the two socket halves it was given and
\* drops them when it ends.
\* ======================================================================

VwDirections == { "ws_to_vnc", "vnc_to_ws" }

\* The socket halves a task owns.
HalvesOf(task) ==
  IF task = "ws_to_vnc" THEN { "ws_stream", "vnc_write" } ELSE { "vnc_read", "ws_sink" }

AllHalves == HalvesOf("ws_to_vnc") \cup HalvesOf("vnc_to_ws")

\* What the client can send on the WebSocket, and what ws_stream.next() can
\* yield besides: an error, or the end of the stream.
WsMessages == { "Binary", "Text", "Ping", "Close", "Err", "End" }

VARIABLES
  vwHandler,   \* handle_connection: "idle" | "select" | "returned"
  vwTask,      \* direction -> "none" | "running" | "done"
  vwOpen,      \* the socket halves that have not been dropped
  vwFromWs,    \* the WebSocket messages the client has sent, not yet read
  vwFromVnc,   \* the reads the VNC socket will yield: "data" | "eof"
  vwWritten    \* direction -> the number of payloads forwarded

vwVars == <<vwHandler, vwTask, vwOpen, vwFromWs, vwFromVnc, vwWritten>>

\* handle_connection up to select!: a plain GET is served from web_dir and
\* the call returns; else the handshake and the connect must succeed, and the
\* two tasks are spawned.
VwHandleConnection ==
  /\ vwHandler = "idle"
  /\ \E kind \in { "http", "websocket" }, accept_ok \in BOOLEAN, connect_ok \in BOOLEAN :
       IF kind = "http" \/ ~accept_ok \/ ~connect_ok
       THEN /\ vwHandler' = "returned"
            /\ UNCHANGED <<vwTask, vwOpen>>
       ELSE /\ vwHandler' = "select"
            /\ vwTask' = [d \in VwDirections |-> "running"]
            /\ vwOpen' = AllHalves
  /\ UNCHANGED <<vwFromWs, vwFromVnc, vwWritten>>

\* The client sends a message, or its side of the WebSocket fails or ends.
VwClientSends ==
  /\ vwHandler # "idle"
  /\ Len(vwFromWs) < MaxBytes
  /\ IF vwFromWs = <<>> THEN TRUE
     ELSE vwFromWs[Len(vwFromWs)] \notin { "Close", "Err", "End" }
  /\ \E msg \in WsMessages : vwFromWs' = Append(vwFromWs, msg)
  /\ UNCHANGED <<vwHandler, vwTask, vwOpen, vwFromVnc, vwWritten>>

\* The VNC server sends data, or closes its side.
VwVncSends ==
  /\ vwHandler # "idle"
  /\ Len(vwFromVnc) < MaxBytes
  /\ IF vwFromVnc = <<>> THEN TRUE ELSE vwFromVnc[Len(vwFromVnc)] # "eof"
  /\ \E r \in { "data", "eof" } : vwFromVnc' = Append(vwFromVnc, r)
  /\ UNCHANGED <<vwHandler, vwTask, vwOpen, vwFromWs, vwWritten>>

\* A task ends: its socket halves are dropped.
VwEnd(task) ==
  /\ vwTask' = [vwTask EXCEPT ![task] = "done"]
  /\ vwOpen' = vwOpen \ HalvesOf(task)

\* One turn of the loop of ws_to_vnc: the next message is read and handled.
VwWsToVnc ==
  /\ vwTask["ws_to_vnc"] = "running"
  /\ vwFromWs # <<>>
  /\ vwFromWs' = Tail(vwFromWs)
  /\ LET msg == Head(vwFromWs)
     IN IF msg \in { "Binary", "Text" }
        THEN \E write_ok \in BOOLEAN :
               IF write_ok
               THEN /\ vwWritten' = [vwWritten EXCEPT !["ws_to_vnc"] = (@ + 1) % (MaxBytes + 1)]
                    /\ UNCHANGED <<vwTask, vwOpen>>
               ELSE VwEnd("ws_to_vnc") /\ UNCHANGED vwWritten
        ELSE IF msg = "Ping"
        THEN UNCHANGED <<vwTask, vwOpen, vwWritten>>
        ELSE VwEnd("ws_to_vnc") /\ UNCHANGED vwWritten
  /\ UNCHANGED <<vwHandler, vwFromVnc>>

\* One turn of the loop of vnc_to_ws: a read of the VNC socket; after the
\* loop the WebSocket is closed.
VwVncToWs ==
  /\ vwTask["vnc_to_ws"] = "running"
  /\ vwFromVnc # <<>>
  /\ vwFromVnc' = Tail(vwFromVnc)
  /\ IF Head(vwFromVnc) = "data"
     THEN \E send_ok \in BOOLEAN :
            IF send_ok
            THEN /\ vwWritten' = [vwWritten EXCEPT !["vnc_to_ws"] = (@ + 1) % (MaxBytes + 1)]
                 /\ UNCHANGED <<vwTask, vwOpen>>
            ELSE VwEnd("vnc_to_ws") /\ UNCHANGED vwWritten
     ELSE VwEnd("vnc_to_ws") /\ UNCHANGED vwWritten
  /\ UNCHANGED <<vwHandler, vwFromWs>>

\* select! takes the join handle of a task that has ended; the other handle
\* is dropped, which detaches its task, and handle_connection returns.
VwSelect ==
  /\ vwHandler = "select"
  /\ \E d \in VwDirections : vwTask[d] = "done"
  /\ vwHandler' = "returned"
  /\ UNCHANGED <<vwTask, vwOpen, vwFromWs, vwFromVnc, vwWritten>>

\* The connection is over on every side; the next one is accepted.
VwNextConnection ==
  /\ vwHandler = "returned"
  /\ \A d \in VwDirections : vwTask[d] # "running"
  /\ vwHandler' = "idle"
  /\ vwTask' = [d \in VwDirections |-> "none"]
  /\ vwOpen' = {}
  /\ vwFromWs' = <<>>
  /\ vwFromVnc' = <<>>
  /\ vwWritten' = [d \in VwDirections |-> 0]

\* ======================================================================
\* Environment daemon: State and the export protocol  (crates/cmux-env/src/lib.rs)
\*
\* A directory is the sequence of its components.  A value is a sequence of
\* characters.  A map of variables gives every key Some(value) or None.
\* ======================================================================

\* Scaled down from 10_000 entries.
MAX_HISTORY == 1
\* The number of changes followed.
MaxGeneration == 2

EnvKeys == { "X", "Y" }
EnvValues == { << "1" >>, << "i", "'", "s" >> }

Global == [kind |-> "Global", path |-> <<>>]
Dir(path) == [kind |-> "Dir", path |-> path]

\* The directories a request can name: /a, /a/. and /a/b.
RequestDirs == { << "a" >>, << "a", "." >>, << "a", "b" >> }
RequestScopes == { Global } \cup { Dir(p) : p \in RequestDirs }

\* fs::canonicalize, in a file system without symbolic links: the "."
\* components are removed.
canon(p) == SelectSeq(p, LAMBDA c : c # ".")

ScopeDirs == { canon(p) : p \in RequestDirs }

NoVars == [k \in EnvKeys |-> None]

ChangeEvent(generation, key, scope) ==
  [generation |-> generation, key |-> key, scope |-> scope]

\* State::default(); `scoped` holds a map for the directories in its domain.
StateDefault ==
  [ generation |-> 0, globals |-> NoVars,
    scoped |-> [d \in {} |-> NoVars], history |-> <<>> ]

\* A bump that never trims the history.
bump_keeps_everything(st, key, scope) ==
  LET generation == st.generation + 1
  IN [st EXCEPT !.generation = generation,
                !.history = Append(st.history, ChangeEvent(generation, key, scope))]

\* bump: history.drain(..len - 10_000) keeps the last entries.
bump(st, key, scope) ==
  LET generation == st.generation + 1
      history == Append(st.history, ChangeEvent(generation, key, scope))
  IN [st EXCEPT !.generation = generation,
                !.history = IF Len(history) > MAX_HISTORY
                            THEN SubSeq(history, Len(history) - MAX_HISTORY + 1, Len(history))
                            ELSE history]

\* HashMap::entry(path).or_default()
or_default(scoped, path) ==
  IF path \in DOMAIN scoped THEN scoped
  ELSE [d \in DOMAIN scoped \cup { path } |-> IF d = path THEN NoVars ELSE scoped[d]]

\* State::set: the state after the call.
set(st, scope, key, value) ==
  IF scope.kind = "Global"
  THEN IF st.globals[key] # Some(value)
       THEN bump([st EXCEPT !.globals[key] = Some(value)], key, Global)
       ELSE st
  ELSE LET path_c == canon(scope.path)
           with_entry == [st EXCEPT !.scoped = or_default(st.scoped, path_c)]
       IN IF with_entry.scoped[path_c][key] # Some(value)
          THEN bump([with_entry EXCEPT !.scoped[path_c][key] = Some(value)],
                    key, Dir(path_c))
          ELSE with_entry

\* State::unset: the state after the call.
unset(st, scope, key) ==
  IF scope.kind = "Global"
  THEN IF st.globals[key].some
       THEN bump([st EXCEPT !.globals[key] = None], key, Global)
       ELSE st
  ELSE LET path_c == canon(scope.path)
       IN IF path_c \in DOMAIN st.scoped
          THEN IF st.scoped[path_c][key].some
               THEN bump([st EXCEPT !.scoped[path_c][key] = None], key, Dir(path_c))
               ELSE st
          ELSE st

\* State::load: one set per entry, in order.
RECURSIVE load(_, _, _, _)
load(st, scope, entries, i) ==
  IF i > Len(entries) THEN st
  ELSE load(set(st, scope, entries[i][1], entries[i][2]), scope, entries, i + 1)

\* Path::starts_with, by components.
starts_with(path, dir) ==
  Len(dir) <= Len(path) /\ SubSeq(path, 1, Len(dir)) = dir

\* State::effective_for_pwd: the globals, overlaid with the map of the most
\* specific scoped directory that is an ancestor of pwd.
effective_for_pwd(st, pwd) ==
  LET pwd_c == canon(pwd)
      cands == { d \in DOMAIN st.scoped : starts_with(pwd_c, d) }
  IN IF cands = {} THEN st.globals
     ELSE LET best == CHOOSE d \in cands : \A e \in cands : Len(e) <= Len(d)
          IN [k \in EnvKeys |->
                IF st.scoped[best][k].some THEN st.scoped[best][k] ELSE st.globals[k]]

\* escape_sh: every ' becomes '\''.
RECURSIVE escape_sh(_)
escape_sh(s) ==
  IF s = <<>> THEN <<>>
  ELSE (IF Head(s) = "'" THEN << "'", "\\", "'", "'" >> ELSE << Head(s) >>)
       \o escape_sh(Tail(s))

\* One line of a script: the command, the key and the word after it.
Line(cmd, key, word) == [cmd |-> cmd, key |-> key, word |-> word]

\* State::export_since: the script and new_generation.  The lines for the
\* keys come in hash order and are a set here; the ENVCTL_GEN line is last.
export_since(st, shell, since, pwd) ==
  LET eff == effective_for_pwd(st, pwd)
      changed_keys == { st.history[i].key :
                          i \in { j \in 1..Len(st.history) :
                                    st.history[j].generation > since } }
      new_gen == st.generation
      unsets == { Line(IF shell = "Fish" THEN "set -e" ELSE "unset -v", k, <<>>) :
                    k \in { c \in changed_keys : ~eff[c].some } }
      sets == { Line(IF shell = "Fish" THEN "set -x" ELSE "export", k,
                     << "'" >> \o escape_sh(eff[k].v) \o << "'" >>) :
                  k \in { c \in changed_keys : eff[c].some } }
  IN [ script |-> [lines |-> unsets \cup sets, envctl_gen |-> new_gen],
       new_generation |-> new_gen ]

\* The shell reads a word: quotes group characters, a backslash outside
\* quotes takes the next character as it is.
RECURSIVE sh_word(_, _, _)
sh_word(w, i, quoted) ==
  IF i > Len(w) THEN <<>>
  ELSE IF w[i] = "'" THEN sh_word(w, i + 1, ~quoted)
  ELSE IF w[i] = "\\" /\ ~quoted /\ i < Len(w) THEN << w[i + 1] >> \o sh_word(w, i + 2, quoted)
  ELSE << w[i] >> \o sh_word(w, i + 1, quoted)

\* The variables of a shell after it has run the lines of a script.
apply_script(vars_, script) ==
  [k \in EnvKeys |->
     IF \E l \in script.lines : l.key = k /\ l.cmd \in { "unset -v", "set -e" } THEN None
     ELSE IF \E l \in script.lines : l.key = k
       THEN Some(sh_word((CHOOSE l \in script.lines : l.key = k).word, 1, FALSE))
     ELSE vars_[k]]

\* The .env files that are loaded: lists of (key, value).
LoadEntries ==
  { << << "X", << "1" >> >>, << "Y", << "1" >> >> >>,
    << << "X", << "1" >> >>, << "X", << "i", "'", "s" >> >> >>,
    << << "Y", << "i", "'", "s" >> >> >> }

\* The directory the client's shell is in.
CLIENT_PWD == << "a", "b" >>

VARIABLES
  evState,   \* the State of the daemon
  evOp,      \* the last request handled: "" | "set" | "unset" | "load" | "export"
  evShell,   \* the variables of the client's shell (without ENVCTL_GEN)
  evGen,     \* ENVCTL_GEN of the client's shell: the since of its next call
  evScript   \* the script of the client's last export

evVars == <<evState, evOp, evShell, evGen, evScript>>

NoScript == [lines |-> {}, envctl_gen |-> 0]

\* Request::Set
EvSet ==
  /\ evState.generation < MaxGeneration
  /\ \E scope \in RequestScopes, key \in EnvKeys, value \in EnvValues :
       evState' = set(evState, scope, key, value)
  /\ evOp' = "set"
  /\ UNCHANGED <<evShell, evGen, evScript>>

\* Request::Unset
EvUnset ==
  /\ evState.generation < MaxGeneration
  /\ \E scope \in RequestScopes, key \in EnvKeys :
       evState' = unset(evState, scope, key)
  /\ evOp' = "unset"
  /\ UNCHANGED <<evShell, evGen, evScript>>

\* Request::Load
EvLoad ==
  /\ evState.generation + 1 < MaxGeneration
  /\ \E scope \in RequestScopes, entries \in LoadEntries :
       evState' = load(evState, scope, entries, 1)
  /\ evOp' = "load"
  /\ UNCHANGED <<evShell, evGen, evScript>>

\* Request::Export from the client's shell hook, which then evaluates the
\* script: since is the ENVCTL_GEN of the shell.
EvExport ==
  /\ \E shell \in { "Bash", "Fish" } :
       LET out == export_since(evState, shell, evGen, CLIENT_PWD)
       IN /\ evScript' = out.script
          /\ evShell' = apply_script(evShell, out.script)
          /\ evGen' = out.script.envctl_gen
  /\ evOp' = "export"
  /\ UNCHANGED evState

vars == <<cacheVars, concVars, gpVars, pxVars, swrVars, tunVars, sdVars, dfVars, rtVars, mbVars, rsVars, grVars, tdVars, nvVars, slVars, vwVars, evVars>>

\* The state after start-up: an empty cache root, no call in progress.
Init ==
  /\ indexFile = [state |-> "missing", entries |-> <<>>]
  /\ dirs = [s \in Slugs |-> "absent"]
  /\ clock = 0
  /\ ensured = {}
  /\ failedCalls = 0
  /\ lastCall = NoCall
  /\ accessOrder = <<>>
  /\ pc = [t \in Threads |-> "idle"]
  /\ t_slug = [t \in Threads |-> ""]
  /\ t_idx = [t \in Threads |-> <<>>]
  /\ calls = [t \in Threads |-> 0]
  /\ sawPartial = FALSE
  /\ gpPhase = "idle"
  /\ gpReq = NoRequest
  /\ gpVerdict = Verdict("", 0, "")
  /\ gpResp = NoResponse
  /\ gpUpstream = 0
  /\ pxPhase = "idle"
  /\ pxReq = NoPxRequest
  /\ pxOut = NoOut
  /\ pxResp = NoResponse
  /\ pxHops = 0
  /\ pxForwards = 0
  /\ pxUpstream = 0
  /\ swrNow = 0
  /\ swrLastFetch = [p \in RepoPaths |-> NeverFetched]
  /\ swrLock = 0
  /\ swrRunning = [p \in RepoPaths |-> 0]
  /\ swrStale = [p \in RepoPaths |-> FALSE]
  /\ swrPc = [c \in Callers |-> "idle"]
  /\ swrPath = [c \in Callers |-> ""]
  /\ swrLastDone = [p \in RepoPaths |-> NoFetchDone]
  /\ tunPhase = "none"
  /\ tunSent = [d \in Directions |-> <<>>]
  /\ tunInbox = [d \in Directions |-> <<>>]
  /\ tunSrcClosed = [d \in Directions |-> FALSE]
  /\ tunBuf = [d \in Directions |-> <<>>]
  /\ tunDelivered = [d \in Directions |-> <<>>]
  /\ tunState = [d \in Directions |-> "running"]
  /\ tunWriterShut = [d \in Directions |-> FALSE]
  /\ sdMode = ""
  /\ sdShutdown = "pending"
  /\ sdNotifier = "none"
  /\ sdWaiting = [i \in Listens |-> FALSE]
  /\ sdNotified = [i \in Listens |-> FALSE]
  /\ sdServer = [i \in Listens |-> "none"]
  /\ sdConns = [i \in Listens |-> 0]
  /\ sdHandle = "none"
  /\ dfPhase = "idle"
  /\ dfCall = NoCallYet
  /\ dfOut = DfOk(<<>>)
  /\ rtPhase = "idle"
  /\ rtFirst = NotServed
  /\ rtSecond = NotServed
  /\ mbPhase = "idle"
  /\ mbGraph = <<>>
  /\ mbA = 0
  /\ mbB = 0
  /\ mbSearch = NoSearch
  /\ mbOut = None
  /\ rsPhase = "idle"
  /\ rsRepo = NoRepo
  /\ rsRev = Rev(FALSE, "")
  /\ rsOut = None
  /\ grPhase = "idle"
  /\ grReq = NoPolicyRequest
  /\ grVerdict = Verdict("", 0, "")
  /\ grUp = None
  /\ grResp = NoFullResponse
  /\ grUpstream = 0
  /\ tdPhase = "idle"
  /\ tdCall = NoCallYet
  /\ tdOut = DfOk(<<>>)
  /\ nvPhase = "idle"
  /\ nvMethod = "GET"
  /\ nvPath = <<>>
  /\ nvResolved = None
  /\ nvStatic = Static(0, None)
  /\ slDirs = [s \in { slug_from_url(u) : u \in HostUrls(CacheHosts) } |-> NoUrl]
  /\ slUrl = NoUrl
  /\ slPath = ""
  /\ slEnsured = <<>>
  /\ vwHandler = "idle"
  /\ vwTask = [d \in VwDirections |-> "none"]
  /\ vwOpen = {}
  /\ vwFromWs = <<>>
  /\ vwFromVnc = <<>>
  /\ vwWritten = [d \in VwDirections |-> 0]
  /\ evState = StateDefault
  /\ evOp = ""
  /\ evShell = NoVars
  /\ evGen = 0
  /\ evScript = NoScript

\* What the steps of one component leave alone: the other components.
exceptCache == <<concVars, gpVars, pxVars, swrVars, tunVars, sdVars, dfVars, rtVars, mbVars, rsVars, grVars, tdVars, nvVars, slVars, vwVars, evVars>>
exceptCacheConc == <<gpVars, pxVars, swrVars, tunVars, sdVars, dfVars, rtVars, mbVars, rsVars, grVars, tdVars, nvVars, slVars, vwVars, evVars>>
exceptGlobalProxy == <<cacheVars, concVars, pxVars, swrVars, tunVars, sdVars, dfVars, rtVars, mbVars, rsVars, grVars, tdVars, nvVars, slVars, vwVars, evVars>>
exceptCmuxProxy == <<cacheVars, concVars, gpVars, swrVars, tunVars, sdVars, dfVars, rtVars, mbVars, rsVars, grVars, tdVars, nvVars, slVars, vwVars, evVars>>
exceptSwr == <<cacheVars, concVars, gpVars, pxVars, tunVars, sdVars, dfVars, rtVars, mbVars, rsVars, grVars, tdVars, nvVars, slVars, vwVars, evVars>>
exceptTunnel == <<cacheVars, concVars, gpVars, pxVars, swrVars, sdVars, dfVars, rtVars, mbVars, rsVars, grVars, tdVars, nvVars, slVars, vwVars, evVars>>
exceptShutdown == <<cacheVars, concVars, gpVars, pxVars, swrVars, tunVars, dfVars, rtVars, mbVars, rsVars, grVars, tdVars, nvVars, slVars, vwVars, evVars>>
exceptDiff == <<cacheVars, concVars, gpVars, pxVars, swrVars, tunVars, sdVars, rtVars, mbVars, rsVars, grVars, tdVars, nvVars, slVars, vwVars, evVars>>
exceptRouting == <<cacheVars, concVars, gpVars, pxVars, swrVars, tunVars, sdVars, dfVars, mbVars, rsVars, grVars, tdVars, nvVars, slVars, vwVars, evVars>>
exceptMergeBase == <<cacheVars, concVars, gpVars, pxVars, swrVars, tunVars, sdVars, dfVars, rtVars, rsVars, grVars, tdVars, nvVars, slVars, vwVars, evVars>>
exceptResolver == <<cacheVars, concVars, gpVars, pxVars, swrVars, tunVars, sdVars, dfVars, rtVars, mbVars, grVars, tdVars, nvVars, slVars, vwVars, evVars>>
exceptPolicy == <<cacheVars, concVars, gpVars, pxVars, swrVars, tunVars, sdVars, dfVars, rtVars, mbVars, rsVars, tdVars, nvVars, slVars, vwVars, evVars>>
exceptDiffTime == <<cacheVars, concVars, gpVars, pxVars, swrVars, tunVars, sdVars, dfVars, rtVars, mbVars, rsVars, grVars, nvVars, slVars, vwVars, evVars>>
exceptStatic == <<cacheVars, concVars, gpVars, pxVars, swrVars, tunVars, sdVars, dfVars, rtVars, mbVars, rsVars, grVars, tdVars, slVars, vwVars, evVars>>
exceptSlug == <<cacheVars, concVars, gpVars, pxVars, swrVars, tunVars, sdVars, dfVars, rtVars, mbVars, rsVars, grVars, tdVars, nvVars, vwVars, evVars>>
exceptVncWs == <<cacheVars, concVars, gpVars, pxVars, swrVars, tunVars, sdVars, dfVars, rtVars, mbVars, rsVars, grVars, tdVars, nvVars, slVars, evVars>>
exceptEnv == <<cacheVars, concVars, gpVars, pxVars, swrVars, tunVars, sdVars, dfVars, rtVars, mbVars, rsVars, grVars, tdVars, nvVars, slVars, vwVars>>

NextCache == EnsureRepo /\ UNCHANGED exceptCache

SpecCache == Init /\ [][NextCache]_vars

NextCacheConc ==
  \E t \in Threads :
    \/ CBegin(t) /\ UNCHANGED exceptCacheConc
    \/ CCheckDir(t) /\ UNCHANGED exceptCacheConc
    \/ CClone(t) /\ UNCHANGED exceptCacheConc
    \/ CUpdateLoad(t) /\ UNCHANGED exceptCacheConc
    \/ CTruncate(t) /\ UNCHANGED exceptCacheConc
    \/ CWrite(t) /\ UNCHANGED exceptCacheConc
    \/ CEnforceLoad(t) /\ UNCHANGED exceptCacheConc
    \/ CEvict(t) /\ UNCHANGED exceptCacheConc
    \/ CReturn(t) /\ UNCHANGED exceptCacheConc

SpecCacheConc == Init /\ [][NextCacheConc]_vars

NextGlobalProxy ==
  \/ GpReceive /\ UNCHANGED exceptGlobalProxy
  \/ GpRoute /\ UNCHANGED exceptGlobalProxy
  \/ GpUpstreamReply /\ UNCHANGED exceptGlobalProxy
  \/ GpFinish /\ UNCHANGED exceptGlobalProxy

SpecGlobalProxy == Init /\ [][NextGlobalProxy]_vars

NextCmuxProxy ==
  \/ PxReceive /\ UNCHANGED exceptCmuxProxy
  \/ PxHandle /\ UNCHANGED exceptCmuxProxy
  \/ PxReenter /\ UNCHANGED exceptCmuxProxy
  \/ PxUpstreamReply /\ UNCHANGED exceptCmuxProxy
  \/ PxConnect /\ UNCHANGED exceptCmuxProxy
  \/ PxFinish /\ UNCHANGED exceptCmuxProxy

SpecCmuxProxy == Init /\ [][NextCmuxProxy]_vars

NextSwr ==
  \/ SwrTick /\ UNCHANGED exceptSwr
  \/ \E path \in RepoPaths : SwrRemotePush(path) /\ UNCHANGED exceptSwr
  \/ \E c \in Callers, path \in RepoPaths, o \in BOOLEAN :
       SwrDiffRefs(c, path, o) /\ UNCHANGED exceptSwr
  \/ \E c \in Callers : SwrAcquire(c) /\ UNCHANGED exceptSwr
  \/ \E c \in Callers : SwrFetchCall(c) /\ UNCHANGED exceptSwr
  \/ \E path \in RepoPaths, ok \in BOOLEAN : SwrFetchDone(path, ok) /\ UNCHANGED exceptSwr
  \/ \E c \in Callers : SwrRead(c) /\ UNCHANGED exceptSwr

SpecSwr == Init /\ [][NextSwr]_vars

\* copy_bidirectional polls both directions each time the task is polled.
Pump(d) ==
  \/ \E k \in 1..MaxBytes : TunRead(d, k) /\ UNCHANGED exceptTunnel
  \/ \E k \in 1..MaxBytes : TunWrite(d, k) /\ UNCHANGED exceptTunnel
  \/ TunReadEof(d) /\ UNCHANGED exceptTunnel
  \/ TunShutdownWriter(d) /\ UNCHANGED exceptTunnel

\* The steps of the tunnel task before and after the copy.
TunnelTask ==
  \/ \E ok \in BOOLEAN : TunUpgraded(ok) /\ UNCHANGED exceptTunnel
  \/ \E ok \in BOOLEAN : TunDial(ok) /\ UNCHANGED exceptTunnel
  \/ TunCopyDone /\ UNCHANGED exceptTunnel
  \/ TunShutdownClient /\ UNCHANGED exceptTunnel
  \/ TunShutdownUpstream /\ UNCHANGED exceptTunnel

NextTunnel ==
  \/ \E kind \in { "upgrade", "connect" } : TunSpawn(kind) /\ UNCHANGED exceptTunnel
  \/ \E d \in Directions, b \in Bytes : TunSend(d, b) /\ UNCHANGED exceptTunnel
  \/ \E d \in Directions : TunPeerClose(d) /\ UNCHANGED exceptTunnel
  \/ \E d \in Directions : TunCopyError(d) /\ UNCHANGED exceptTunnel
  \/ \E d \in Directions : Pump(d)
  \/ TunnelTask

SpecTunnel == Init /\ [][NextTunnel]_vars

\* The runtime polls the tunnel task whenever one of its sockets is ready, and
\* a poll of copy_bidirectional drives both directions.
SpecTunnelFair ==
  SpecTunnel /\ WF_vars(TunnelTask) /\ \A d \in Directions : WF_vars(Pump(d))

\* The steps of the spawned tasks and of the connections they serve.
ShutdownTasks ==
  \/ SdNotify /\ UNCHANGED exceptShutdown
  \/ \E i \in Listens : SdFirstPoll(i) /\ UNCHANGED exceptShutdown
  \/ \E i \in Listens : SdConnDone(i) /\ UNCHANGED exceptShutdown
  \/ \E i \in Listens : SdGraceful(i) /\ UNCHANGED exceptShutdown
  \/ \E i \in Listens : SdServerExit(i) /\ UNCHANGED exceptShutdown
  \/ SdHandleDone /\ UNCHANGED exceptShutdown

NextShutdown ==
  \/ \E mode \in { "single", "multi" }, resolved \in BOOLEAN :
       SdSpawn(mode, resolved) /\ UNCHANGED exceptShutdown
  \/ SdSignal /\ UNCHANGED exceptShutdown
  \/ \E i \in Listens : SdAccept(i) /\ UNCHANGED exceptShutdown
  \/ ShutdownTasks

SpecShutdown == Init /\ [][NextShutdown]_vars

\* The runtime polls every task that can make progress, and connections in
\* flight come to an end.
SpecShutdownFair ==
  /\ SpecShutdown
  /\ WF_vars(SdNotify /\ UNCHANGED exceptShutdown)
  /\ WF_vars(SdHandleDone /\ UNCHANGED exceptShutdown)
  /\ \A i \in Listens :
       /\ WF_vars(SdFirstPoll(i) /\ UNCHANGED exceptShutdown)
       /\ WF_vars(SdConnDone(i) /\ UNCHANGED exceptShutdown)
       /\ WF_vars(SdGraceful(i) /\ UNCHANGED exceptShutdown)
       /\ WF_vars(SdServerExit(i) /\ UNCHANGED exceptShutdown)

NextDiff ==
  \/ DfDiffRefs(DagCalls(Envs)) /\ UNCHANGED exceptDiff
  \/ DfDiffRefs(TreeCalls(EnvOk)) /\ UNCHANGED exceptDiff
  \/ DfDiffRefs(ModeCalls({ EnvOk, Env(FALSE, FALSE, FALSE, TRUE) })) /\ UNCHANGED exceptDiff
  \/ DfReturn /\ UNCHANGED exceptDiff

SpecDiff == Init /\ [][NextDiff]_vars

NextRouting ==
  \/ RtServeFirst /\ UNCHANGED exceptRouting
  \/ RtServeSecond /\ UNCHANGED exceptRouting
  \/ RtReset /\ UNCHANGED exceptRouting

SpecRouting == Init /\ [][NextRouting]_vars

NextMergeBase ==
  \/ MbCall /\ UNCHANGED exceptMergeBase
  \/ MbLoop /\ UNCHANGED exceptMergeBase
  \/ MbReturn /\ UNCHANGED exceptMergeBase

SpecMergeBase == Init /\ [][NextMergeBase]_vars

NextResolver ==
  \/ RsResolve /\ UNCHANGED exceptResolver
  \/ RsReturn /\ UNCHANGED exceptResolver

SpecResolver == Init /\ [][NextResolver]_vars

NextPolicy ==
  \/ GrReceive /\ UNCHANGED exceptPolicy
  \/ GrRoute /\ UNCHANGED exceptPolicy
  \/ GrUpstreamReply /\ UNCHANGED exceptPolicy
  \/ GrFinish /\ UNCHANGED exceptPolicy

SpecPolicy == Init /\ [][NextPolicy]_vars

NextDiffTime ==
  \/ TdDiffRefs /\ UNCHANGED exceptDiffTime
  \/ TdReturn /\ UNCHANGED exceptDiffTime

SpecDiffTime == Init /\ [][NextDiffTime]_vars

NextStatic ==
  \/ NvServeStatic /\ UNCHANGED exceptStatic
  \/ NvDone /\ UNCHANGED exceptStatic

SpecStatic == Init /\ [][NextStatic]_vars

NextSlug ==
  \/ SlEnsureRepo /\ UNCHANGED exceptSlug
  \/ SlFreshRoot /\ UNCHANGED exceptSlug

SpecSlug == Init /\ [][NextSlug]_vars

NextVncWs ==
  \/ VwHandleConnection /\ UNCHANGED exceptVncWs
  \/ VwClientSends /\ UNCHANGED exceptVncWs
  \/ VwVncSends /\ UNCHANGED exceptVncWs
  \/ VwWsToVnc /\ UNCHANGED exceptVncWs
  \/ VwVncToWs /\ UNCHANGED exceptVncWs
  \/ VwSelect /\ UNCHANGED exceptVncWs
  \/ VwNextConnection /\ UNCHANGED exceptVncWs

SpecVncWs == Init /\ [][NextVncWs]_vars

NextEnv ==
  \/ EvSet /\ UNCHANGED exceptEnv
  \/ EvUnset /\ UNCHANGED exceptEnv
  \/ EvLoad /\ UNCHANGED exceptEnv
  \/ EvExport /\ UNCHANGED exceptEnv

SpecEnv == Init /\ [][NextEnv]_vars

\* ======================================================================
\* Properties of the repository cache
\* ======================================================================
IndexSlugs == { indexFile.entries[i].slug : i \in 1..Len(indexFile.entries) }
DirCount == Cardinality({ s \in Slugs : dirs[s] # "absent" })
SlugsOf(es) == { es[i].slug : i \in 1..Len(es) }

C4_LockedAtomicIndex ==
  /\ ~sawPartial
  /\ ( /\ \A t \in Threads : pc[t] = "idle"
       /\ failedCalls = 0
       /\ Cardinality(ensured) <= MAX_CACHE_REPOS )
     => ensured \subseteq IndexSlugs

\* The last_access_ms an index holds for a slug.
StampOf(es, slug) == es[CHOOSE i \in 1..Len(es) : es[i].slug = slug].last_access_ms

\* C5: when a successful call raises the index above MAX_CACHE_REPOS entries,
\* no evicted entry has a larger last_access_ms than a kept one, the directory
\* of every evicted entry is gone, the directory of every kept entry is there,
\* and the entries kept are the MAX_CACHE_REPOS most recently accessed ones.
C5_LruEvictionStep ==
  LET slug    == lastCall'.slug
      old     == indexFile.entries
      new     == indexFile'.entries
      stamp(x) == IF x = slug THEN clock' ELSE StampOf(old, x)
      evicted == (SlugsOf(old) \cup {slug}) \ SlugsOf(new)
  IN (lastCall'.ok /\ Cardinality(SlugsOf(old) \cup {slug}) > MAX_CACHE_REPOS) =>
       /\ \A e \in evicted, k \in SlugsOf(new) : stamp(e) <= StampOf(new, k)
       /\ \A e \in evicted : dirs'[e] = "absent"
       /\ \A k \in SlugsOf(new) : dirs'[k] = "repo"
       /\ SlugsOf(new) = Range(SubSeq(Accessed(accessOrder, slug), 1, MAX_CACHE_REPOS))

C5_LruEviction == [][C5_LruEvictionStep]_vars

\* ======================================================================
\* Properties of the global proxy
\* ======================================================================

\* C1: a request that carries X-Cmux-Proxied: true and whose host names a
\* port, cmux or workspace route is answered 508 "Loop detected in proxy",
\* and no upstream connection is opened for it.
C1_LoopDetected ==
  (/\ gpPhase \in { "forwarding", "done" }
   /\ gpReq.proxied
   /\ RouteVerdict(gpReq.host, gpReq.path, gpReq.method).kind \in RouteKinds)
    => /\ gpPhase = "done"
       /\ gpResp = Response(508, "Loop detected in proxy")
       /\ gpUpstream = 0

\* A workspace-route preflight request carrying the header has been answered
\* 508 without any upstream connection.
C1_Witness ==
  /\ gpPhase = "done"
  /\ gpReq.proxied
  /\ gpReq.method = "OPTIONS"
  /\ RouteVerdict(gpReq.host, gpReq.path, gpReq.method).kind = "WorkspaceRoute"
  /\ gpResp = Response(508, "Loop detected in proxy")
  /\ gpUpstream = 0

\* ======================================================================
\* Properties of cmux-proxy
\* ======================================================================

\* C2: every request the proxy sends on to an upstream, on the plain HTTP
\* path and on the upgrade path, carries X-Cmux-Proxied: true; a request
\* that comes back to the proxy is answered 508 and is not sent on again, so
\* no request goes through the proxy more than once.
C2_ForwardedCarriesLoopHeader ==
  /\ pxPhase = "forwarded" => pxOut.req.proxied
  /\ pxForwards <= 1
  /\ (pxHops > 1 /\ pxPhase = "done") => pxResp = Response(508, "Loop detected in proxy")

\* ======================================================================
\* Properties of the stale-while-revalidate fetch
\* ======================================================================

\* A call of swr_fetch by caller c returns in this step.
SwrReturns(c) == swrPc[c] = "locked" /\ swrPc'[c] = "read"

\* C6: a call of swr_fetch starts no fetch when a fetch of that repository
\* completed less than the window ago, whether that fetch succeeded or
\* failed, and starts exactly one otherwise; the completion of a fetch,
\* successful or not, records the completion time as the new timestamp.
C6_SwrWindowStep ==
  /\ \A c \in Callers :
       SwrReturns(c) =>
         LET path == swrPath[c]
             recent == swrLastDone[path] # NoFetchDone
                         /\ swrNow - swrLastDone[path].at < FETCH_WINDOW_MS
         IN /\ recent => swrRunning' = swrRunning
            /\ ~recent => swrRunning' = [swrRunning EXCEPT ![path] = @ + 1]
  /\ \A path \in RepoPaths :
       swrRunning'[path] < swrRunning[path] => swrLastFetch'[path] = swrNow

C6_SwrWindow == [][C6_SwrWindowStep]_vars

\* The last fetch of a repository has failed, and a later
\* call within the window has returned without starting a fetch.
C6_Witness ==
  \E c \in Callers :
    /\ swrPc[c] = "read"
    /\ swrLock = 0
    /\ swrRunning[swrPath[c]] = 0
    /\ swrLastDone[swrPath[c]] # NoFetchDone
    /\ ~swrLastDone[swrPath[c]].ok
    /\ swrNow > swrLastDone[swrPath[c]].at
    /\ swrNow - swrLastDone[swrPath[c]].at < FETCH_WINDOW_MS

C8_HalfCloseSafety ==
  \A d \in Directions :
    /\ (tunPhase = "open" /\ tunState[d] # "running")
         => tunSrcClosed[d] /\ tunDelivered[d] = tunSent[d]
    /\ (tunPhase = "open" /\ tunWriterShut[d]) => tunState[d] = "done"
    /\ tunState[d] = "done" => tunWriterShut[d]
    /\ tunPhase = "ended" => tunWriterShut[d]

C8_HalfClosePropagates ==
  /\ []C8_HalfCloseSafety
  /\ \A d \in Directions : (tunPhase = "open" /\ tunSrcClosed[d]) ~> tunWriterShut[d]

\* The client has closed and the upstream writer has been shut down, while
\* the upstream-to-client direction is in the middle of forwarding a byte.
C8_Witness ==
  /\ tunPhase = "open"
  /\ tunState["c2u"] = "done"
  /\ tunWriterShut["c2u"]
  /\ tunState["u2c"] = "running"
  /\ ~tunSrcClosed["u2c"]
  /\ ~tunWriterShut["u2c"]
  /\ tunBuf["u2c"] # <<>>

IsPrefix(p, q) == Len(p) <= Len(q) /\ SubSeq(q, 1, Len(p)) = p

\* C9: in each direction the bytes delivered to the receiver are at all times
\* a prefix of the bytes the sender wrote, and the bytes written are exactly
\* the bytes delivered, then those in the copy buffer, then those not yet
\* read: none dropped, duplicated, altered or reordered.
C9_InOrderDelivery ==
  \A d \in Directions :
    /\ IsPrefix(tunDelivered[d], tunSent[d])
    /\ tunDelivered[d] \o tunBuf[d] \o tunInbox[d] = tunSent[d]

\* Two different bytes have gone from the client to the upstream in order,
\* while only the first of the upstream's bytes has reached the client.
C9_Witness ==
  /\ tunPhase = "open"
  /\ tunDelivered["c2u"] = <<"a", "b">>
  /\ Len(tunSent["u2c"]) = 2
  /\ Len(tunDelivered["u2c"]) = 1

\* ======================================================================
\* Properties of start-up and shutdown
\* ======================================================================

\* C10: once the shutdown future given to spawn_proxy or spawn_proxy_multi
\* has resolved, eventually no listener accepts connections any more and the
\* JoinHandle returned completes, whenever the signal comes, also before the
\* server tasks have first been polled.
C10_ShutdownCompletes ==
  (sdMode # "" /\ sdShutdown = "resolved")
    ~> (sdHandle = "done" /\ \A i \in ListensOf(sdMode) : sdServer[i] = "exited")

\* ----------------------------------------------------------------------
\* Diff engine
\* ----------------------------------------------------------------------

DfReturned == dfPhase = "returned"
DfRef1 == oid_from_rev_parse(dfCall.repo, dfCall.opts.ref1)
DfRef2 == oid_from_rev_parse(dfCall.repo, dfCall.opts.ref2)

\* Both revisions name commits of the repository, and the second is the
\* first or one of its ancestors.
DfAncestorPair ==
  /\ DfRef1.some /\ DfRef2.some
  /\ DfRef1.v \in dfCall.repo.commits
  /\ DfRef2.v \in dfCall.repo.commits
  /\ DfRef2.v \in ancestors(dfCall.repo, DfRef1.v)

\* C11: for every pair (A, B) of commits where B is an ancestor of A, B = A
\* included, a diff_refs(ref1 = A, ref2 = B) that returns a list returns the
\* empty list.
C11_AncestorDiffEmpty ==
  (DfReturned /\ DfAncestorPair /\ dfOut.ok) => dfOut.entries = <<>>

DfEntries == dfOut.entries
DfBaseMap == dfCall.repo.tree[base_oid_of(dfCall.env, dfCall.repo, DfRef1.v, DfRef2.v)].blobs
DfHeadMap == dfCall.repo.tree[DfRef2.v].blobs

\* C12: in a returned list no two entries share an old_path and no two share
\* a file_path; a rename goes from a path of the base only to a path of the
\* head only, and neither of its paths is also reported as added or deleted.
C12_RenamePairingOneToOne ==
  (DfReturned /\ dfOut.ok) =>
    \A i, j \in 1..Len(DfEntries) :
      /\ (i # j) => DfEntries[i].filePath # DfEntries[j].filePath
      /\ (i # j /\ DfEntries[i].oldPath.some) =>
           DfEntries[i].oldPath # DfEntries[j].oldPath
      /\ (DfEntries[i].status = "renamed") =>
           /\ DfEntries[i].oldPath.some
           /\ DfEntries[i].oldPath.v \in base_only_of(DfBaseMap, DfHeadMap)
           /\ DfEntries[i].filePath \in head_only_of(DfBaseMap, DfHeadMap)
           /\ DfBaseMap[DfEntries[i].oldPath.v] = DfHeadMap[DfEntries[i].filePath]
           /\ (DfEntries[j].status \in { "added", "deleted" }) =>
                DfEntries[j].filePath \notin
                  { DfEntries[i].oldPath.v, DfEntries[i].filePath }

\* Two deleted paths carried the blob of one added path: one of them was
\* paired with it, the other is reported as deleted.
C12_Witness ==
  /\ DfReturned /\ dfOut.ok
  /\ \E i, j \in 1..Len(DfEntries) :
       /\ DfEntries[i].status = "renamed"
       /\ DfEntries[j].status = "deleted"
       /\ DfBaseMap[DfEntries[j].filePath] = DfHeadMap[DfEntries[i].filePath]

\* The call got as far as opening the repository, and opened it.
DfOpened ==
  /\ dfCall.opts.originPathOverride \/ ~dfCall.env.ensure_fails
  /\ ~dfCall.env.open_fails

DfResolved == DfRef1.some /\ DfRef2.some

\* A step of the call failed outside the resolver: ensure_repo or gix::open,
\* the merge-base subprocess, the lookup of a commit, or the git diff of the
\* fallback.
DfIoFailed ==
  \/ ~DfOpened
  \/ /\ DfResolved
     /\ \/ ~merge_base(dfCall.env, dfCall.repo, DfRef1.v, DfRef2.v).some
        \/ DfRef2.v \notin dfCall.repo.commits
        \/ /\ DfRef1.v \in dfCall.repo.commits
           /\ DfRef2.v \in dfCall.repo.commits
           /\ DfBaseMap = DfHeadMap
           /\ dfCall.env.cli_fails

\* C13 (first half): a revision that does not resolve gives success with the
\* empty list.
DfUnresolvedGivesEmpty ==
  (DfReturned /\ DfOpened /\ ~DfResolved) => dfOut = DfOk(<<>>)

\* C13 (second half): a failure to open the repository, to read an object or
\* to run a subprocess is returned as an error.
DfIoFailurePropagated ==
  (DfReturned /\ DfIoFailed) => ~dfOut.ok

\* C13: if ref1 or ref2 does not resolve, diff_refs returns success with the
\* empty list; a failure to open the repository, to read an object or to run
\* a subprocess is returned as an error and never as a list.
C13_ResolveEmptyIoPropagated ==
  DfUnresolvedGivesEmpty /\ DfIoFailurePropagated

DfInclude == include_of(dfCall.opts)
DfMaxBytes == max_bytes_of(dfCall.opts)

\* The size of the text a map holds at a path: nothing at an absent path or
\* where no blob can be read.
DfSizeAt(map, path) ==
  IF map[path] = Absent THEN 0
  ELSE LET data == get_blob_bytes(map[path])
       IN IF data.some THEN Len(data.v) ELSE 0

\* The sizes of the old and of the new side of an entry; the old side of a
\* rename is at its old path.
DfOldSize(e) == DfSizeAt(DfBaseMap, IF e.oldPath.some THEN e.oldPath.v ELSE e.filePath)
DfNewSize(e) == DfSizeAt(DfHeadMap, e.filePath)
DfOversize(e) == DfOldSize(e) + DfNewSize(e) > DfMaxBytes

DfHasContents(e) == e.oldContent.some \/ e.newContent.some

\* content_omitted is true exactly for a text entry whose two sizes sum to
\* more than max_bytes.
DfContentOmittedExact ==
  (DfReturned /\ dfOut.ok) =>
    \A i \in 1..Len(DfEntries) :
      (DfEntries[i].contentOmitted = Some(TRUE))
        <=> (~DfEntries[i].isBinary /\ DfOversize(DfEntries[i]))

\* Contents are there exactly for a text entry of a call that asked for
\* them, when the two sizes sum to at most max_bytes.
DfContentsExact ==
  (DfReturned /\ dfOut.ok) =>
    \A i \in 1..Len(DfEntries) :
      DfHasContents(DfEntries[i])
        <=> (~DfEntries[i].isBinary /\ DfInclude /\ ~DfOversize(DfEntries[i]))

\* C14: content_omitted is true exactly when the entry is text and the sum of
\* its old and new text sizes exceeds max_bytes, whatever the status, a
\* rename counting both sides; contents are populated exactly when the entry
\* is text, contents were asked for and that sum is at most max_bytes.
C14_ContentOmittedExact ==
  DfContentOmittedExact /\ DfContentsExact

\* What the same call can return when it asks for contents.
DfWithContents ==
  diff_refs(dfCall.env, dfCall.repo,
            [dfCall.opts EXCEPT !.includeContents = Some(TRUE)])

\* The fields of an entry that do not hold contents.
DfSummary(e) ==
  [ filePath |-> e.filePath, oldPath |-> e.oldPath, status |-> e.status,
    oldSize |-> e.oldSize, newSize |-> e.newSize,
    additions |-> e.additions, deletions |-> e.deletions,
    isBinary |-> e.isBinary ]

\* C15: a call with include_contents = false returns entries without
\* contents that have the old_size, new_size, additions, deletions and
\* is_binary the same call returns with include_contents = true.
C15_IncludeFalsePreservesCounts ==
  (DfReturned /\ dfOut.ok /\ ~DfInclude) =>
    /\ \A i \in 1..Len(DfEntries) : ~DfHasContents(DfEntries[i])
    /\ \E r \in DfWithContents :
         /\ r.ok
         /\ Len(r.entries) = Len(DfEntries)
         /\ \A i \in 1..Len(DfEntries) :
              DfSummary(r.entries[i]) = DfSummary(DfEntries[i])

\* C16: every entry with is_binary = true has additions = 0, deletions = 0
\* and no contents, whatever its status, an entry whose blob cannot be read
\* (a gitlink) included.
C16_BinaryHasNoCountsNoContents ==
  (DfReturned /\ dfOut.ok) =>
    \A i \in 1..Len(DfEntries) :
      DfEntries[i].isBinary =>
        /\ DfEntries[i].additions = 0
        /\ DfEntries[i].deletions = 0
        /\ ~DfHasContents(DfEntries[i])

\* A call that asked for contents returned an entry for a gitlink, flagged
\* binary, next to a text entry with a count.
C16_Witness ==
  /\ DfReturned /\ dfOut.ok /\ DfInclude
  /\ \E i, j \in 1..Len(DfEntries) :
       /\ DfEntries[i].isBinary
       /\ "link" \in { DfBaseMap[DfEntries[i].filePath], DfHeadMap[DfEntries[i].filePath] }
       /\ ~DfEntries[j].isBinary
       /\ DfEntries[j].additions > 0

\* ----------------------------------------------------------------------
\* cmux-proxy: upstream failures and the CONNECT tunnel
\* ----------------------------------------------------------------------

\* The request was sent on, or its tunnel task dialed, and nobody listens at
\* the target; the exchange is over.
PxDialFailed ==
  /\ pxPhase = "done"
  /\ pxOut.kind \in { "http", "upgrade", "connect" }
  /\ ListenerAt(pxOut.target) = "none"

\* C17: when the upstream cannot be dialed the client gets one 502 whose body
\* is "upstream error: <message>", for a plain request, an upgrade and a
\* CONNECT alike, the request is sent once, and the client gets no success
\* status.
C17_ConnectFailureIs502 ==
  PxDialFailed =>
    /\ pxResp = response_with(502, "upstream error")
    /\ (pxHops = 1) => pxForwards <= 1

PxNotSwitched ==
  /\ pxOut.kind = "upgrade"
  /\ pxUpstream \in UpstreamStatuses \ { 101 }

\* C18: when the upstream answers an upgrade request with a status other
\* than 101, the client gets 502 with the body "upstream did not switch
\* protocols: <status>" and no tunnel task is started.
C18_NotSwitchedIs502 ==
  /\ PxNotSwitched =>
       /\ pxResp = response_with(502, did_not_switch_protocols(pxUpstream))
       /\ pxPhase = "done"
  /\ (pxPhase = "tunnel" /\ pxOut.kind = "upgrade") => pxUpstream = 101

\* An upgrade request was answered 404 by the upstream.
C18_Witness ==
  /\ PxNotSwitched
  /\ pxUpstream = 404
  /\ pxResp.status = 502

\* The 200 of a CONNECT has been returned only once the connection to the
\* target is open.
PxConnectedBefore200 ==
  (pxOut.kind = "connect" /\ pxResp.status = 200) => pxPhase = "tunnel"

\* Bytes of a CONNECT tunnel are pumped only when the 200 has been returned
\* and somebody accepted the connection at the target.
PxPumpAfterBoth ==
  (pxOut.kind = "connect" /\ pxPhase = "tunnel") =>
    /\ pxResp.status = 200
    /\ ListenerAt(pxOut.target) # "none"

\* C19: for a CONNECT the proxy has opened the TCP connection to the target
\* by the time it returns 200 with Connection: upgrade, and no tunnel byte is
\* pumped before the connection is open and the 200 returned.
C19_ConnectDialsBefore200 ==
  PxConnectedBefore200 /\ PxPumpAfterBoth

\* ----------------------------------------------------------------------
\* Global proxy: the verdict as a function of the request
\* ----------------------------------------------------------------------

\* The two requests agree on host, path, method and the loop header.
RtSameInputs ==
  /\ rtFirst.req.host = rtSecond.req.host
  /\ rtFirst.req.path = rtSecond.req.path
  /\ rtFirst.req.method = rtSecond.req.method
  /\ rtFirst.req.proxied = rtSecond.req.proxied

GpRouted == gpPhase \in { "forwarding", "done" }
GpPortShaped(label) ==
  Len(label) = 3 /\ label[1] = Word("port") /\ label[2].kind = "num"
GpCmuxLed(label) == Len(label) >= 2 /\ label[1] = Word("cmux")

\* C21: the families are tested in the order Apex, ServiceWorker, Port, Cmux,
\* Workspace and the first match wins: a request for /proxy-sw.js is answered
\* 200 with the canned script for every host, also one that would give a
\* route, a rejection or a loop detection, and without an upstream
\* connection; a label of the port shape is never judged by the cmux or the
\* workspace rules, and a label led by cmux never by the workspace rules.
C21_FirstFamilyWins ==
  GpRouted =>
    /\ (gpReq.host.apex /\ gpReq.path = "/" /\ gpReq.method = "GET") =>
         gpVerdict.kind = "ApexGreeting"
    /\ (gpReq.path = "/proxy-sw.js") =>
         /\ gpVerdict.kind = "ServiceWorker"
         /\ gpPhase = "done"
         /\ gpResp = Response(200, "proxy-sw.js")
         /\ gpUpstream = 0
    /\ (gpReq.path # "/proxy-sw.js" /\ ~gpReq.host.apex) =>
         /\ GpPortShaped(gpReq.host.label) =>
              /\ gpVerdict.kind \in { "PortRoute", "RejectPort", "LoopDetected" }
              /\ gpVerdict.kind = "RejectPort" =>
                   gpVerdict.message = "Invalid port in cmux proxy subdomain"
         /\ GpCmuxLed(gpReq.host.label) =>
              /\ gpVerdict.kind \in
                   { "CmuxRoute", "RejectSyntax", "RejectPort", "LoopDetected" }
              /\ gpVerdict.kind = "RejectSyntax" =>
                   gpVerdict.message = "Invalid cmux proxy subdomain"
              /\ gpVerdict.kind = "RejectPort" =>
                   gpVerdict.message = "Invalid port in cmux proxy subdomain"

\* /proxy-sw.js was asked of port-8080-test with the loop header set, a host
\* that gives LoopDetected for any other path, and the script was served.
C21_Witness ==
  /\ gpPhase = "done"
  /\ gpReq.path = "/proxy-sw.js"
  /\ gpReq.host.label = << Word("port"), Num(<<8, 0, 8, 0>>), Word("test") >>
  /\ gpReq.proxied
  /\ ParseVerdict(gpReq.host, "/", gpReq.method, gpReq.proxied).kind = "LoopDetected"
  /\ gpResp = Response(200, "proxy-sw.js")

\* ----------------------------------------------------------------------
\* Merge base by breadth-first search
\* ----------------------------------------------------------------------

MbReturned == mbPhase = "returned"

\* The graph as the repository of the diff engine sees it.
MbRepo ==
  [ commits |-> 1..Len(mbGraph),
    parents |-> [c \in 1..Len(mbGraph) |-> Range(mbGraph[c])] ]

MbCommon == ancestors(MbRepo, mbA) \cap ancestors(MbRepo, mbB)

\* The common ancestors that are no ancestor of another common ancestor: the
\* commits `git merge-base --all` prints.
MbBestCommon ==
  { c \in MbCommon : \A d \in MbCommon \ { c } : c \notin ancestors(MbRepo, d) }

\* The commits k parent steps away from c.
RECURSIVE MbLevel(_, _)
MbLevel(c, k) ==
  IF k = 0 THEN { c }
  ELSE UNION { Range(mbGraph[x]) : x \in MbLevel(c, k - 1) }

\* The shortest parent distance from c to its ancestor x.
MbDistance(c, x) ==
  CHOOSE k \in 0..Len(mbGraph) :
    /\ x \in MbLevel(c, k)
    /\ \A j \in 0..(k - 1) : x \notin MbLevel(c, j)

MbCost(x) == MbDistance(mbA, x) + MbDistance(mbB, x)

\* C22: for every commit graph and every pair (A, B) with a common ancestor,
\* merge_base_bfs(A, B) returns what `git merge-base A B` returns: a best
\* common ancestor, one that is not an ancestor of another common ancestor.
C22_BfsAgreesWithGit ==
  (MbReturned /\ MbCommon # {}) =>
    /\ mbOut.some
    /\ mbOut.v \in MbBestCommon
    /\ (Cardinality(MbBestCommon) = 1) =>
         mbOut = merge_base_git(EnvOk, MbRepo, mbA, mbB)

\* C23: merge_base_bfs(A, B) returns an ancestor-or-self of both A and B whose
\* sum of shortest parent distances from A and from B is the least among the
\* common ancestors; it returns A when A = B and when A and B have no common
\* ancestor.
C23_BfsMinimalCost ==
  MbReturned =>
    /\ mbOut.some
    /\ (mbA = mbB) => mbOut.v = mbA
    /\ (MbCommon = {}) => mbOut.v = mbA
    /\ (MbCommon # {}) =>
         /\ mbOut.v \in MbCommon
         /\ \A c \in MbCommon : MbCost(mbOut.v) <= MbCost(c)

\* A and B are different commits, neither an ancestor of the other; they have
\* common ancestors of different cost, and the search returned a cheapest.
C23_Witness ==
  /\ MbReturned
  /\ mbOut.some
  /\ mbOut.v \notin { mbA, mbB }
  /\ mbOut.v \in MbCommon
  /\ \E c \in MbCommon : MbCost(c) > MbCost(mbOut.v)

\* ----------------------------------------------------------------------
\* Rev resolver
\* ----------------------------------------------------------------------

RsReturned == rsPhase = "returned"
RsText == rsRev.text
RsOriginOfRev == << "refs/remotes/origin", RsText >>

\* What the steps give in the order hex id, direct lookup of a refs/ name or
\* HEAD, refs/remotes/origin/<rest> of an origin/ name,
\* refs/remotes/origin/<rev>, the revision parser, refs/heads/<rev>,
\* refs/tags/<rev>.
RsStepsInOrder ==
  LET n == NameOf(RsText)
      lookup(name) ==
        IF name \in DOMAIN rsRepo.refs THEN Some(rsRepo.refs[name]) ELSE None
  IN << IF rsRev.hex THEN Some(RsText) ELSE None,
        IF n.form \in { "refs/", "HEAD" } THEN lookup(<< n.ns, n.short >>) ELSE None,
        IF n.form = "origin/" THEN lookup(<< n.ns, n.short >>) ELSE None,
        lookup(RsOriginOfRev),
        rev_parse_single(rsRepo, RsText),
        lookup(<< "refs/heads", RsText >>),
        lookup(<< "refs/tags", RsText >>) >>

\* C24: the resolver returns what the first resolving step gives, the steps
\* taken in the order hex id, direct lookup of a refs/ name or HEAD,
\* refs/remotes/origin/<rest>, refs/remotes/origin/<rev>, revision parser,
\* refs/heads/<rev>, refs/tags/<rev>: a remote-tracking branch wins over a
\* local branch or tag of the same name, and the resolver fails only when
\* every step fails.
C24_ResolverOrder ==
  RsReturned =>
    /\ rsOut = first_some(RsStepsInOrder)
    /\ (~rsRev.hex /\ NameOf(RsText).form = "short"
          /\ RsOriginOfRev \in DOMAIN rsRepo.refs) =>
         rsOut = Some(rsRepo.refs[RsOriginOfRev])
    /\ (~rsOut.some) => \A i \in 1..Len(RsStepsInOrder) : ~RsStepsInOrder[i].some

\* ----------------------------------------------------------------------
\* Global proxy: the rejections of the cmux and the workspace family
\* ----------------------------------------------------------------------

\* The segment is a base-10 u16 greater than 0.
GpIsPort(seg) ==
  /\ seg.kind = "num"
  /\ DigitsValue(seg.digits, 1, 0) > 0
  /\ DigitsValue(seg.digits, 1, 0) <= U16_MAX

GpFamilyJudged == GpRouted /\ ~gpReq.host.apex /\ gpReq.path # "/proxy-sw.js"
GpLabel == gpReq.host.label
GpRejected(message) ==
  /\ gpPhase = "done"
  /\ gpResp = Response(400, message)
  /\ gpUpstream = 0
GpRouteOf(kind, seg) ==
  IF gpReq.proxied THEN gpVerdict.kind = "LoopDetected"
  ELSE gpVerdict = Verdict(kind, DigitsValue(seg.digits, 1, 0), "")

\* C25: a label cmux-<slug> without the trailing port group is answered 400
\* "Invalid cmux proxy subdomain"; a cmux label whose trailing group is not a
\* base-10 u16 greater than 0 is answered 400 "Invalid port in cmux proxy
\* subdomain"; every other cmux label, with or without a scope segment, gives
\* a CmuxRoute to the port of its trailing group.
C25_CmuxFamilyRejections ==
  (GpFamilyJudged /\ GpCmuxLed(GpLabel)) =>
    IF Len(GpLabel) = 2 THEN GpRejected("Invalid cmux proxy subdomain")
    ELSE IF ~GpIsPort(GpLabel[Len(GpLabel)])
    THEN GpRejected("Invalid port in cmux proxy subdomain")
    ELSE GpRouteOf("CmuxRoute", GpLabel[Len(GpLabel)])

\* cmux-test was asked and answered 400 "Invalid cmux proxy subdomain".
C25_Witness ==
  /\ gpPhase = "done"
  /\ gpReq.path = "/"
  /\ ~gpReq.host.apex
  /\ GpLabel = << Word("cmux"), Word("test") >>
  /\ gpResp = Response(400, "Invalid cmux proxy subdomain")

\* C26: a label of the workspace family without the port group is answered
\* 400 "Invalid cmux subdomain"; one whose port group is not a u16 greater
\* than 0 is answered 400 "Invalid port in subdomain"; a label
\* <name>-<port>-<vmslug> with a valid port, the name possibly holding
\* hyphens, gives a WorkspaceRoute to that port.
C26_WorkspaceFamilyRejections ==
  (GpFamilyJudged /\ ~GpPortShaped(GpLabel) /\ ~GpCmuxLed(GpLabel)) =>
    IF Len(GpLabel) < 3 THEN GpRejected("Invalid cmux subdomain")
    ELSE IF ~GpIsPort(GpLabel[Len(GpLabel) - 1])
    THEN GpRejected("Invalid port in subdomain")
    ELSE GpRouteOf("WorkspaceRoute", GpLabel[Len(GpLabel) - 1])

\* test-test-8080-test, a name with a hyphen, was routed to port 8080 of the
\* workspace.
C26_Witness ==
  /\ GpRouted
  /\ gpReq.path = "/app"
  /\ ~gpReq.host.apex
  /\ ~gpReq.proxied
  /\ GpLabel = << Word("test"), Word("test"), Num(<<8, 0, 8, 0>>), Word("test") >>
  /\ gpVerdict = Verdict("WorkspaceRoute", 8080, "")

\* ----------------------------------------------------------------------
\* Global proxy: preflight, HTML rewriting and the control-port policy
\* ----------------------------------------------------------------------

GrRouted == grPhase \in { "forwarding", "done" }
GrAnswered == grPhase = "done"

\* C27: an OPTIONS request to a PortRoute or CmuxRoute host is answered 204
\* with allow-origin, allow-methods GET,HEAD,POST,PUT,PATCH,DELETE,OPTIONS,
\* allow-headers echoing Access-Control-Request-Headers and max-age 86400,
\* and no upstream connection is opened for it: the answer is the same
\* whether or not the upstream can be reached.
C27_PreflightWithoutUpstream ==
  (GrRouted /\ grReq.method = "OPTIONS"
     /\ grVerdict.kind \in { "PortRoute", "CmuxRoute" }) =>
    /\ GrAnswered
    /\ grUpstream = 0
    /\ grUp = None
    /\ grResp.status = 204
    /\ grResp.allowOrigin.some
    /\ grResp.allowMethods = Some("GET,HEAD,POST,PUT,PATCH,DELETE,OPTIONS")
    /\ grReq.requestHeaders.some => grResp.allowHeaders = grReq.requestHeaders
    /\ grResp.maxAge = Some("86400")
    /\ grResp = local_response(grVerdict, [grReq EXCEPT !.reachable = ~grReq.reachable],
                               Response(204, ""))

\* A preflight for port 8080 was answered 204 while the upstream could not
\* be reached.
C27_Witness ==
  /\ GrAnswered
  /\ grReq.method = "OPTIONS"
  /\ grVerdict = Verdict("PortRoute", 8080, "")
  /\ ~grReq.reachable
  /\ grReq.requestHeaders = Some("content-type")
  /\ grResp.status = 204
  /\ grResp.allowHeaders = Some("content-type")

GrRewritten == GrAnswered /\ grUp.some /\ is_rewritten(grUp.v)
GrBodyHas(script) == \E i \in 1..Len(grResp.body) : grResp.body[i] = script

\* C28: the body of a rewritten text/html response holds the location shim
\* for every route kind, and the service-worker registration exactly when
\* the route is a PortRoute or a WorkspaceRoute, never for a CmuxRoute; what
\* is left without the scripts is the body of the upstream.
C28_ScriptsByRouteKind ==
  GrRewritten =>
    /\ GrBodyHas(LOCATION_SHIM)
    /\ GrBodyHas(SW_REGISTRATION) <=> grVerdict.kind \in { "PortRoute", "WorkspaceRoute" }
    /\ (grVerdict.kind = "CmuxRoute") => ~GrBodyHas(SW_REGISTRATION)
    /\ SelectSeq(grResp.body, LAMBDA x : x \notin { LOCATION_SHIM, SW_REGISTRATION })
         = grUp.v.body

\* An HTML page without <head> came back through a CmuxRoute: it got the
\* location shim and no service-worker registration.
C28_Witness ==
  /\ GrRewritten
  /\ grVerdict.kind = "CmuxRoute"
  /\ grUp.v.body = WithoutHead
  /\ grUp.v.contentType = "text/html; charset=utf-8"
  /\ grResp.body = << LOCATION_SHIM >> \o WithoutHead

GrControl == GrAnswered /\ grVerdict = Verdict("PortRoute", 39378, "")
GrOriginAllowed ==
  /\ grReq.origin.some
  /\ grReq.origin.v \in
       { "https://cmux.sh", "https://www.cmux.sh", "https://cmux.dev",
         "https://www.cmux.dev", "http://localhost:5173", "https://cmux.local",
         "http://cmux.local" }
GrVaryOrigins ==
  { i \in 1..Len(grResp.vary) : grResp.vary[i] \in { "Origin", "ORIGIN", "origin" } }

\* C29: on the control port 39378 every response to a request whose Origin
\* is in the allowed set has Access-Control-Allow-Origin equal to that
\* Origin, Vary with the token Origin exactly once whatever its letter case
\* and whatever the upstream sent, every frame-ancestors directive of
\* Content-Security-Policy replaced by the fixed one and the other
\* directives kept, and no X-Frame-Options; an Origin outside the allowed
\* set is never the value of Access-Control-Allow-Origin.
C29_ControlPortPolicy ==
  /\ (GrControl /\ GrOriginAllowed) =>
       /\ grResp.allowOrigin = grReq.origin
       /\ Cardinality(GrVaryOrigins) = 1
       /\ grResp.xFrameOptions = None
       /\ \A i \in 1..Len(grResp.csp) :
            /\ grResp.csp[i].name = "frame-ancestors" => grResp.csp[i] = FRAME_ANCESTORS
       /\ grUp.some =>
            /\ Len(grResp.csp) = Len(grUp.v.csp)
            /\ \A i \in 1..Len(grUp.v.csp) :
                 grResp.csp[i] = IF grUp.v.csp[i].name = "frame-ancestors"
                                 THEN FRAME_ANCESTORS ELSE grUp.v.csp[i]
            /\ \A i \in 1..Len(grUp.v.vary) :
                 \E j \in 1..Len(grResp.vary) : grResp.vary[j] = grUp.v.vary[i]
                   \/ grUp.v.vary[i] \in { "Origin", "ORIGIN", "origin" }
  /\ (GrAnswered /\ grReq.origin.some /\ ~GrOriginAllowed) =>
       grResp.allowOrigin # grReq.origin

\* The upstream of the control port sent Vary: Accept-Encoding, ORIGIN, a
\* frame-ancestors 'none' and X-Frame-Options; the request came from
\* https://cmux.dev.
C29_Witness ==
  /\ GrControl
  /\ grReq.origin = Some("https://cmux.dev")
  /\ grUp.some
  /\ grUp.v.vary = << "Accept-Encoding", "ORIGIN" >>
  /\ grUp.v.csp = << Directive("default-src", "'self'"),
                     Directive("frame-ancestors", "'none'") >>
  /\ grUp.v.xFrameOptions = Some("DENY")
  /\ grResp.allowOrigin = Some("https://cmux.dev")
  /\ grResp.vary = << "Accept-Encoding", "ORIGIN" >>
  /\ grResp.csp = << Directive("default-src", "'self'"), FRAME_ANCESTORS >>

\* ----------------------------------------------------------------------
\* cmux-proxy: the upstream host of a workspace
\* ----------------------------------------------------------------------

PxHandled == pxPhase \notin { "idle", "handling" }
PxWorkspaceDigits == pxReq.workspace.digits

\* C30: for a workspace name whose trailing digits parse as N the upstream
\* host is 127.18.(N>>8).(N&0xFF); for a name without trailing digits no
\* workspace address is derived and the request goes to the configured
\* default host.
C30_WorkspaceUpstreamHost ==
  (PxHandled /\ get_port_from_header(pxReq).ok /\ pxReq.workspace.present) =>
    IF PxWorkspaceDigits = <<>>
    THEN /\ workspace_ip_from_name(pxReq.workspace) = None
         /\ pxOut.kind # ""
         /\ pxOut.target.host = ProxyConfig.upstream_host
    ELSE (Len(PxWorkspaceDigits) <= 9) =>
         LET N == DigitsValue(PxWorkspaceDigits, 1, 0)
         IN /\ workspace_ip_from_name(pxReq.workspace)
                 = Some(<< 127, 18, N \div 256, N % 256 >>)
            /\ pxOut.kind # ""
            /\ pxOut.target.host = << 127, 18, N \div 256, N % 256 >>

\* ----------------------------------------------------------------------
\* Diff engine: line counts against git diff --numstat
\* ----------------------------------------------------------------------

\* Sum of f over the entries of a list.
RECURSIVE SumOver(_, _, _)
SumOver(entries, i, field) ==
  IF i > Len(entries) THEN 0
  ELSE (IF field = "additions" THEN entries[i].additions ELSE entries[i].deletions)
       + SumOver(entries, i + 1, field)

\* The lines of a blob as git diff --numstat counts them for a file that is
\* added or deleted as a whole: a binary file is shown as '-', counted 0.
NumstatLines(oid) ==
  IF is_binary(BlobData[oid]) THEN 0 ELSE lines_count(BlobData[oid])

\* The [adds, dels] row of git diff --numstat for one path of two trees of
\* blobs; `paired` holds the paths git reports as exact renames (0 and 0).
NumstatRow(base_map, head_map, paired, p) ==
  IF p \in paired \/ base_map[p] = head_map[p] THEN [adds |-> 0, dels |-> 0]
  ELSE IF base_map[p] = Absent THEN [adds |-> NumstatLines(head_map[p]), dels |-> 0]
  ELSE IF head_map[p] = Absent THEN [adds |-> 0, dels |-> NumstatLines(base_map[p])]
  ELSE IF is_binary(BlobData[base_map[p]]) \/ is_binary(BlobData[head_map[p]])
       THEN [adds |-> 0, dels |-> 0]
  ELSE text_diff(BlobData[base_map[p]], BlobData[head_map[p]])

RECURSIVE NumstatSum(_, _, _, _, _)
NumstatSum(base_map, head_map, paired, i, field) ==
  IF i > Len(PathOrder) THEN 0
  ELSE LET row == NumstatRow(base_map, head_map, paired, PathOrder[i])
       IN (IF field = "additions" THEN row.adds ELSE row.dels)
          + NumstatSum(base_map, head_map, paired, i + 1, field)

\* The trees of the two revisions hold blobs only (no gitlink).
DfBlobsOnly ==
  \A p \in TreePaths : DfBaseMap[p] # "link" /\ DfHeadMap[p] # "link"

\* The paths of the renames the call reported, old and new.
DfRenamedPaths ==
  UNION { { DfEntries[i].oldPath.v, DfEntries[i].filePath } :
            i \in { k \in 1..Len(DfEntries) : DfEntries[k].status = "renamed" } }

\* C31: for every pair of revisions (A, B) the sum of additions over the
\* entries of diff_refs(A, B) equals the sum of the added-lines column of
\* git diff --numstat A..B with '-' counted as 0, and likewise for
\* deletions, whatever max_bytes is.
C31_CountsMatchNumstat ==
  (DfReturned /\ dfOut.ok /\ DfOpened /\ DfResolved /\ DfInclude
     /\ DfRef1.v \in dfCall.repo.commits /\ DfRef2.v \in dfCall.repo.commits
     /\ DfBlobsOnly) =>
    /\ SumOver(DfEntries, 1, "additions")
         = NumstatSum(DfBaseMap, DfHeadMap, DfRenamedPaths, 1, "additions")
    /\ SumOver(DfEntries, 1, "deletions")
         = NumstatSum(DfBaseMap, DfHeadMap, DfRenamedPaths, 1, "deletions")

\* The same statement for the calls whose text entries are all within
\* max_bytes.
C31_CountsMatchWithinLimit ==
  (\A i \in 1..Len(DfEntries) : DfEntries[i].contentOmitted # Some(TRUE))
    => C31_CountsMatchNumstat

\* ----------------------------------------------------------------------
\* Diff engine: the classification of the paths of two trees
\* ----------------------------------------------------------------------

\* The result was built by the comparison of the two trees: the two blob
\* maps differ, so the comparison found an entry and the command-line
\* fallback did not run.
DfFromTrees ==
  /\ DfReturned /\ dfOut.ok /\ DfOpened /\ DfResolved
  /\ DfRef1.v \in dfCall.repo.commits /\ DfRef2.v \in dfCall.repo.commits
  /\ DfBaseMap # DfHeadMap

\* The entries that report path p: as their path, or as the old path of a
\* rename.
DfEntriesOf(p) ==
  { i \in 1..Len(DfEntries) :
      DfEntries[i].filePath = p \/ DfEntries[i].oldPath = Some(p) }

DfStatusOf(p) == DfEntries[CHOOSE i \in DfEntriesOf(p) : TRUE].status

\* C32: for every path of the base tree or the head tree the tree
\* classification produces exactly one outcome fixed by (in_base, in_head,
\* same_blob): head-only gives added, base-only gives deleted, present in
\* both with different blob ids gives modified, present in both with the
\* same blob id gives no entry; the only exception is a base-only path and a
\* head-only path with equal blob ids, which are merged into one renamed
\* entry.
C32_TreeClassification ==
  DfFromTrees =>
    /\ \A p \in TreePaths :
         LET in_base == DfBaseMap[p] # Absent
             in_head == DfHeadMap[p] # Absent
             same_blob == DfBaseMap[p] = DfHeadMap[p]
         IN CASE in_base /\ in_head /\ same_blob -> DfEntriesOf(p) = {}
              [] in_base /\ in_head /\ ~same_blob ->
                   /\ Cardinality(DfEntriesOf(p)) = 1
                   /\ DfStatusOf(p) = "modified"
              [] ~in_base /\ in_head ->
                   /\ Cardinality(DfEntriesOf(p)) = 1
                   /\ DfStatusOf(p) \in { "added", "renamed" }
              [] in_base /\ ~in_head ->
                   /\ Cardinality(DfEntriesOf(p)) = 1
                   /\ DfStatusOf(p) \in { "deleted", "renamed" }
              [] OTHER -> DfEntriesOf(p) = {}
    /\ \A i \in 1..Len(DfEntries) :
         DfEntries[i].status = "renamed" =>
           /\ DfEntries[i].oldPath.some
           /\ DfEntries[i].oldPath.v \in base_only_of(DfBaseMap, DfHeadMap)
           /\ DfEntries[i].filePath \in head_only_of(DfBaseMap, DfHeadMap)
           /\ DfBaseMap[DfEntries[i].oldPath.v] = DfHeadMap[DfEntries[i].filePath]
    /\ \A i, j \in 1..Len(DfEntries) :
         (DfEntries[i].status = "deleted" /\ DfEntries[j].status = "added") =>
           DfBaseMap[DfEntries[i].filePath] # DfHeadMap[DfEntries[j].filePath]

\* One call reported a rename and left a path with the same blob in both
\* trees out.
C32_Witness ==
  /\ DfFromTrees
  /\ \E i \in 1..Len(DfEntries) : DfEntries[i].status = "renamed"
  /\ \E p \in TreePaths : DfBaseMap[p] # Absent /\ DfBaseMap[p] = DfHeadMap[p]

\* ----------------------------------------------------------------------
\* Diff engine: modified entries without line changes
\* ----------------------------------------------------------------------

TdReturned == tdPhase = "returned"
TdEntries == tdOut.entries
TdBaseMap == tdCall.repo.tree["c1"].blobs
TdHeadMap == tdCall.repo.tree["c2"].blobs

\* Path p is in both trees with different blob ids, neither of them binary.
TextChanged(base_map, head_map, p) ==
  /\ base_map[p] \in DOMAIN BlobData /\ head_map[p] \in DOMAIN BlobData
  /\ base_map[p] # head_map[p]
  /\ ~is_binary(BlobData[base_map[p]]) /\ ~is_binary(BlobData[head_map[p]])

\* The list has exactly one entry for path p: a modified entry that is not
\* binary; when the call counted no line for it, with both counts 0.
ModifiedEmitted(entries, p) ==
  /\ Cardinality({ i \in 1..Len(entries) : entries[i].filePath = p }) = 1
  /\ \A i \in 1..Len(entries) :
       entries[i].filePath = p =>
         /\ entries[i].status = "modified"
         /\ ~entries[i].isBinary
         /\ entries[i].additions >= 0 /\ entries[i].deletions >= 0

\* C33 (core crate): a path of both trees with different blob ids that is
\* not binary is emitted as a modified entry also when no line was counted
\* for it (additions = deletions = 0), for every value of include_contents.
C33_ZeroLineModifiedEmittedCore ==
  DfFromTrees =>
    \A p \in TreePaths :
      TextChanged(DfBaseMap, DfHeadMap, p) => ModifiedEmitted(DfEntries, p)

\* C33: a path present in both trees with different blob ids that is not
\* binary and has zero added and zero deleted lines is still emitted, as a
\* modified entry with additions = deletions = 0, for every value of
\* include_contents.
C33_ZeroLineModifiedEmitted ==
  (TdReturned /\ tdOut.ok) =>
    \A p \in TreePaths :
      TextChanged(TdBaseMap, TdHeadMap, p) => ModifiedEmitted(TdEntries, p)

\* ----------------------------------------------------------------------
\* noVNC proxy: static files stay under the web root
\* ----------------------------------------------------------------------

NvServed == nvPhase = "served"

\* The path lies under the web root: it starts with the components of the
\* root and goes on with plain file names only, none of them "..", "." or
\* empty and none holding a separator.
UnderWebRoot(path) ==
  /\ Len(path) > Len(WEB_ROOT)
  /\ SubSeq(path, 1, Len(WEB_ROOT)) = WEB_ROOT
  /\ \A k \in (Len(WEB_ROOT) + 1)..Len(path) :
       /\ path[k] \notin { <<>>, << "." >>, DOTDOT }
       /\ \A c \in 1..Len(path[k]) : path[k][c] # "/"

\* The spellings of a ".." segment in a request path: each dot written
\* literally or as %2e / %2E.
DotSpellings == { << "." >>, << "%", "2", "e" >>, << "%", "2", "E" >> }
DotDotSpellings == { a \o b : a \in DotSpellings, b \in DotSpellings }

HasDotDotSegment(uri_path) ==
  \E k \in 1..Len(split_slash(uri_path, 1, <<>>)) :
    split_slash(uri_path, 1, <<>>)[k] \in DotDotSpellings

\* C34: for every request path resolve_path returns either None or a path
\* under web_root; a path with a '..' segment, written literally or
\* percent-encoded, yields None; so serve_static never reads a file outside
\* web_root.
C34_StaticUnderWebRoot ==
  NvServed =>
    /\ nvResolved.some => UnderWebRoot(nvResolved.v)
    /\ HasDotDotSegment(nvPath) => ~nvResolved.some
    /\ nvStatic.read.some => UnderWebRoot(nvStatic.read.v)

\* A request whose path holds a percent-encoded ".." segment was answered
\* 404 without a read.
C34_Witness ==
  /\ NvServed /\ nvMethod = "GET"
  /\ nvPath = << "/", "%", "2", "e", "%", "2", "e", "/" >>
  /\ nvStatic = Static(404, None)

\* ----------------------------------------------------------------------
\* Repository cache: the repository a call has just resolved
\* ----------------------------------------------------------------------

\* C35: when a successful ensure_repo(url) call returns, the returned path
\* exists on disk and its entry is in the cache index: a call never evicts
\* the repository it has just resolved, even when last_access_ms values tie
\* or the clock does not advance between calls.
C35_ResolvedRepoKept ==
  lastCall.ok =>
    /\ dirs[lastCall.slug] = "repo"
    /\ lastCall.slug \in IndexSlugs

\* The same statement for the calls that read a clock value larger than
\* every last_access_ms of the index.
C35_ResolvedRepoKeptStep ==
  (lastCall'.ok /\ \A i \in 1..Len(load_index(indexFile)) :
                     load_index(indexFile)[i].last_access_ms < clock')
    => /\ dirs'[lastCall'.slug] = "repo"
       /\ lastCall'.slug \in SlugsOf(indexFile'.entries)

C35_ResolvedRepoKeptOnAdvance == [][C35_ResolvedRepoKeptStep]_vars

\* ----------------------------------------------------------------------
\* Repository cache: one directory per repository
\* ----------------------------------------------------------------------

\* Two URLs name the same repository: they differ at most in a ".git"
\* suffix.
SameRepository(u1, u2) ==
  /\ Len(u1) = Len(u2)
  /\ \A k \in 1..(Len(u1) - 1) : u1[k] = u2[k]
  /\ trim_end_matches_git(u1[Len(u1)]) = trim_end_matches_git(u2[Len(u2)])

\* C36: two different repository URLs never share a cache directory:
\* slug_from_url maps distinct URLs passed to ensure_repo to distinct slugs,
\* so ensure_repo(url) never returns the clone of another repository (for
\* instance the same owner/repo on two different hosts).
C36_OneDirectoryPerUrl ==
  /\ \A i, j \in 1..Len(slEnsured) :
       ~SameRepository(slEnsured[i], slEnsured[j])
         => slug_from_url(slEnsured[i]) # slug_from_url(slEnsured[j])
  /\ slEnsured # <<>> => SameRepository(slDirs[slPath], slUrl)

\* The same statement for URLs of one host.
C36_OneDirectoryPerUrlOnOneHost ==
  (\A i, j \in 1..Len(slEnsured) : slEnsured[i][1] = slEnsured[j][1])
    => C36_OneDirectoryPerUrl

\* ----------------------------------------------------------------------
\* cmux-proxy: one address per workspace index
\* ----------------------------------------------------------------------

\* The index the proxy reads from a workspace header, when it accepts it.
WorkspaceIndex(h) == IF h.present THEN parse_u32(h.digits) ELSE None

\* C37: distinct workspace indices map to distinct upstream IPs: for every
\* N1 # N2 that the proxy accepts as trailing digits of a workspace name,
\* workspace_ip_from_index(N1) # workspace_ip_from_index(N2), i.e. the third
\* octet N >> 8 is never truncated.
C37_DistinctWorkspaceIps ==
  (PxHandled /\ get_port_from_header(pxReq).ok /\ WorkspaceIndex(pxReq.workspace).some) =>
    LET N1 == WorkspaceIndex(pxReq.workspace).v
    IN /\ pxOut.kind # ""
       /\ pxOut.target.host = workspace_ip_from_index(N1)
       /\ pxOut.target.host[3] = N1 \div 256
       /\ \A w \in WorkspaceHeaders :
            (WorkspaceIndex(w).some /\ WorkspaceIndex(w).v # N1)
              => workspace_ip_from_index(WorkspaceIndex(w).v) # pxOut.target.host

\* The same statement for the indices below 65536.
C37_DistinctWorkspaceIpsBelow65536 ==
  (PxHandled /\ get_port_from_header(pxReq).ok /\ WorkspaceIndex(pxReq.workspace).some
     /\ WorkspaceIndex(pxReq.workspace).v < 65536) =>
    LET N1 == WorkspaceIndex(pxReq.workspace).v
    IN /\ pxOut.kind # ""
       /\ pxOut.target.host = workspace_ip_from_index(N1)
       /\ pxOut.target.host[3] = N1 \div 256
       /\ \A w \in WorkspaceHeaders :
            (WorkspaceIndex(w).some /\ WorkspaceIndex(w).v # N1
               /\ WorkspaceIndex(w).v < 65536)
              => workspace_ip_from_index(WorkspaceIndex(w).v) # pxOut.target.host

\* ----------------------------------------------------------------------
\* vnc-websocket-proxy: what is left when handle_connection returns
\* ----------------------------------------------------------------------

\* C38: when handle_connection returns for a connection, neither forwarding
\* direction of that connection is still running: the completion of one
\* direction stops the other direction and releases both sockets.
C38_NothingRunsAfterReturn ==
  vwHandler = "returned" =>
    /\ \A d \in VwDirections : vwTask[d] # "running"
    /\ vwOpen = {}

\* The part that holds: handle_connection returns from select! only after a
\* direction has ended, and the halves of an ended direction are dropped.
C38_ReturnAfterOneDirection ==
  /\ (vwHandler = "returned" /\ \E d \in VwDirections : vwTask[d] # "none")
       => \E d \in VwDirections : vwTask[d] = "done"
  /\ \A d \in VwDirections : vwTask[d] = "done" => vwOpen \cap HalvesOf(d) = {}

\* ----------------------------------------------------------------------
\* Environment daemon: generation and history
\* ----------------------------------------------------------------------

\* The stored values of a state: the globals and the variables of every
\* directory, a directory without a map holding none.
Stored(st) ==
  [ globals |-> st.globals,
    scoped |-> [d \in ScopeDirs |-> IF d \in DOMAIN st.scoped THEN st.scoped[d] ELSE NoVars] ]

\* The number of stored values that differ between two states.
StoredChanges(s, t) ==
  Cardinality({ k \in EnvKeys : s.globals[k] # t.globals[k] })
  + Cardinality({ c \in ScopeDirs \X EnvKeys :
                    Stored(s).scoped[c[1]][c[2]] # Stored(t).scoped[c[1]][c[2]] })

\* The history is well formed: generations strictly increasing, the last one
\* the generation of the state, at most MAX_HISTORY entries.
HistoryWellFormed(st) ==
  /\ \A i, j \in 1..Len(st.history) :
       i < j => st.history[i].generation < st.history[j].generation
  /\ st.history # <<>> => st.history[Len(st.history)].generation = st.generation
  /\ Len(st.history) <= MAX_HISTORY

\* The sets of a load that change a stored value, from entry i on.
RECURSIVE LoadChanges(_, _, _, _)
LoadChanges(st, scope, entries, i) ==
  IF i > Len(entries) THEN 0
  ELSE LET next == set(st, scope, entries[i][1], entries[i][2])
       IN StoredChanges(st, next) + LoadChanges(next, scope, entries, i + 1)

C39_Step ==
  /\ evState'.generation >= evState.generation
  /\ HistoryWellFormed(evState')
  /\ evOp' \in { "set", "unset" } =>
       /\ StoredChanges(evState, evState') <= 1
       /\ evState'.generation = evState.generation + StoredChanges(evState, evState')
  /\ evOp' = "load" =>
       \E scope \in RequestScopes, entries \in LoadEntries :
         /\ evState' = load(evState, scope, entries, 1)
         /\ evState'.generation
              = evState.generation + LoadChanges(evState, scope, entries, 1)
  /\ evOp' = "export" => evState'.generation = evState.generation

C40_Step ==
  evOp' = "export" =>
    /\ evShell' = effective_for_pwd(evState', CLIENT_PWD)
    /\ evGen' = evState'.generation
    /\ evGen = evState.generation => evScript'.lines = {}

C40_ShellFollowsExports == [][C40_Step]_vars

\* The same statement while the requests name the global scope only and the
\* history still holds every change.
C40_GlobalStep ==
  (evOp' = "export" /\ DOMAIN evState.scoped = {}
     /\ evState.generation <= MAX_HISTORY) =>
    /\ evShell' = effective_for_pwd(evState', CLIENT_PWD)
    /\ evGen' = evState'.generation
    /\ evGen = evState.generation => evScript'.lines = {}

C40_ShellFollowsGlobalExports == [][C40_GlobalStep]_vars

====
